---- MODULE Spec2Model ----
(***************************************************************************)
(* YouTube Channel Analyzer: the dual-mode (on-device / cloud) state       *)
(* synchronisation of App, the session-library merges and the remote       *)
(* document service, as a state machine.                                   *)
(*                                                                         *)
(* One step of the model is one run-to-completion task of the browser's    *)
(* event loop: a UI handler, an auth callback, a timer callback or the     *)
(* continuation of an awaited network call, together with the React        *)
(* effects that the resulting render runs.                                 *)
(***************************************************************************)
EXTENDS Integers, Sequences, FiniteSets, TLC

VARIABLES
    lsConfig,             \* on-device entry 'yt-analyzer-config-v2'
    lsSessions,           \* on-device entry 'yt-analyzer-sessions-v1'
    lsAnalysis,           \* on-device entry 'yt-analyzer-analysis-v1'
    syncedAppConfig,      \* in-memory mirror, None until populated
    syncedSavedSessions,
    syncedAnalysisState,
    user,                 \* React state: the signed-in user, or None
    isAuthLoading,
    isDataSynced,         \* the "reconciled" flag
    remote,               \* the account's row of table user_data, or None
    syncCalls,            \* getUserData calls in flight, each with syncData's closure
    timeouts,             \* pending window.setTimeout callbacks of the debounce effect
    pendingSaves,         \* saveUserData calls in flight (payloads)
    fetches,              \* handleFetchVideos calls in flight, each with its closure
    analyses,             \* performCompetitiveAnalysis calls in flight, with closure
    lastOp,               \* history: the step taken last
    sinceChange,          \* history: seconds since the mirror last changed
    refreshed,            \* history: a new user object arrived since that change
    coalesced,            \* history: mirror changes the timeout set last stands for
    lsAtSignIn,           \* history: the on-device values when the user signed in
    probe,                \* inputs and result of a merge applied on its own
    transcriptModalState, \* React state of the transcript modal
    transcripts,          \* generateTranscript calls in flight, each with its closure
    isUpdating,           \* React state: handleUpdateChannel is running
    updatingSessionId,    \* React state: the session handleUpdateSession is refreshing
    channelQueue,         \* React state: the URLs waiting to be analysed
    currentlyAnalyzingUrl \* React state: the URL handleAnalyzeFromQueue was called with

syncVars == <<lsConfig, lsSessions, lsAnalysis, syncedAppConfig, syncedSavedSessions,
              syncedAnalysisState, user, isAuthLoading, isDataSynced, remote,
              syncCalls, timeouts, pendingSaves, fetches, analyses,
              lastOp, sinceChange, refreshed, coalesced, lsAtSignIn>>

uiVars == <<transcriptModalState, transcripts, isUpdating, updatingSessionId,
            channelQueue, currentlyAnalyzingUrl>>

vars == <<syncVars, probe, uiVars>>

----------------------------------------------------------------------------
(* Bounds of the model *)

MaxStamp == 2          \* savedAt timestamps are 1..MaxStamp
MaxInflight == 1       \* saves / fetches / analyses awaiting their response at a time
MaxSyncCalls == 2      \* getUserData calls awaiting their response at a time
MaxElapsed == 3        \* sinceChange saturates here
MaxCoalesced == 2      \* coalesced saturates here
MaxKeyChars == 3       \* characters of a key string
MaxPieces == 3         \* pieces of a duration string after its prefix
MaxTranscripts == 2    \* transcript requests awaiting their response at a time
MaxSaves == 2          \* saveUserData calls awaiting their response where they may overlap

(* Program constants *)

DebounceDelay == 2     \* seconds: window.setTimeout(..., 2000)

----------------------------------------------------------------------------
(* Values *)

\* A nullable value: None, or Some(v).  null, undefined, an absent storage key
\* and an absent row are all None.
None == <<>>
Some(v) == <<v>>
OrElse(o, d) == IF o = None THEN d ELSE o[1]

NULL == "null"

Users == {"u1"}
DirectUrl == "youtube.com/c"   \* the URL of a call of handleFetchVideos outside the queue
Ids == {"c1", "c2"}
Stamps == 1..MaxStamp
Themes == {"blue", "green"}
KeyBlobs == {"", "yk"}

initialConfig ==
    [theme |-> "blue", aiProvider |-> "gemini", aiModel |-> "gemini-2.5-pro",
     youtube |-> [key |-> ""], gemini |-> [key |-> ""], openai |-> [key |-> ""]]

initialAnalysisState ==
    [isLoading |-> FALSE, error |-> NULL, result |-> "", isComplete |-> FALSE]

\* A session: the channel id, the save time, and the fetched content
\* (channel metadata, videos, chat) abstracted to the place it was produced.
\* The transcript modal before anything was requested
initialTranscriptState ==
    [isOpen |-> FALSE, video |-> None, transcript |-> "", isLoading |-> FALSE,
     error |-> NULL, currentVideoId |-> None]

\* useState initial values of the view state, as after every page load; the
\* handlers that were awaiting a transcript are gone with the page
MountUi ==
    /\ transcriptModalState' = initialTranscriptState
    /\ transcripts' = <<>>
    /\ isUpdating' = FALSE
    /\ updatingSessionId' = None
    /\ channelQueue' = <<>>
    /\ currentlyAnalyzingUrl' = None

Session(i, t, d) == [id |-> i, savedAt |-> t, data |-> d]

IdsOf(list) == {list[k].id : k \in 1..Len(list)}

UniqueIds(list) == \A j, k \in 1..Len(list) : list[j].id = list[k].id => j = k

SeqsUpTo(S, n) == UNION {[1..m -> S] : m \in 0..n}

\* { ...a, ...b } : object spread, b's fields over a's
Spread(a, b) ==
    [f \in DOMAIN a \cup DOMAIN b |-> IF f \in DOMAIN b THEN b[f] ELSE a[f]]

----------------------------------------------------------------------------
(* Sequences *)

RemoveAt(seq, i) == [k \in 1..(Len(seq) - 1) |-> IF k < i THEN seq[k] ELSE seq[k + 1]]

\* Array.prototype.filter on the id
FilterOutId(list, i) == SelectSeq(list, LAMBDA s : s.id # i)

\* Array.prototype.findIndex(s => s.id === i); 0 stands for -1
FindIndex(list, i) ==
    IF i \in IdsOf(list) THEN CHOOSE k \in 1..Len(list) :
                                  /\ list[k].id = i
                                  /\ \A j \in 1..(k - 1) : list[j].id # i
    ELSE 0

\* Map.prototype.set: a present key keeps its position and takes the new value,
\* a new key goes last.  The map is the list of its values in insertion order.
MapSet(list, s) ==
    IF FindIndex(list, s.id) > 0 THEN [list EXCEPT ![FindIndex(list, s.id)] = s]
    ELSE Append(list, s)

RECURSIVE MapSetAll(_, _)
MapSetAll(list, incoming) ==
    IF incoming = <<>> THEN list
    ELSE MapSetAll(MapSet(list, Head(incoming)), Tail(incoming))

\* The merging App version's syncData.
\* A merge loop without the comparison of savedAt
CloudSetAlways(list, s) == MapSet(list, s)

\* cloudSessions.forEach: a cloud session is set when its id is new or its
\* savedAt is later than the one in the Map
CloudSet(list, s) ==
    IF FindIndex(list, s.id) = 0 THEN MapSet(list, s)
    ELSE IF s.savedAt > list[FindIndex(list, s.id)].savedAt THEN MapSet(list, s)
    ELSE list

RECURSIVE CloudSetAll(_, _)
CloudSetAll(list, cloudSessions) ==
    IF cloudSessions = <<>> THEN list
    ELSE CloudSetAll(CloudSet(list, Head(cloudSessions)), Tail(cloudSessions))

\* mergedSessionsMap of syncData: the local sessions first, then the cloud ones
MergeCloud(localSessions, cloudSessions) ==
    CloudSetAll(MapSetAll(<<>>, localSessions), cloudSessions)

----------------------------------------------------------------------------
(* State of App: the on-device hooks, the mirror, the derived active state *)

\* useLocalStorage(key, initialValue): the stored value, or initialValue when
\* the key is absent
useLocalStorage(entry, initialValue) == OrElse(entry, initialValue)

localAppConfig == useLocalStorage(lsConfig, initialConfig)
localSavedSessions == useLocalStorage(lsSessions, <<>>)
localAnalysisState == useLocalStorage(lsAnalysis, initialAnalysisState)

isLoggedIn == user # None

\* A derived state that falls back to the device while the mirror is empty
savedSessionsDeviceFallback ==
    IF user # None THEN OrElse(syncedSavedSessions, useLocalStorage(lsSessions, <<>>))
    ELSE useLocalStorage(lsSessions, <<>>)

appConfig == IF isLoggedIn THEN OrElse(syncedAppConfig, initialConfig) ELSE localAppConfig
savedSessions == IF isLoggedIn THEN OrElse(syncedSavedSessions, <<>>) ELSE localSavedSessions
analysisState ==
    IF isLoggedIn THEN OrElse(syncedAnalysisState, initialAnalysisState)
    ELSE localAnalysisState

\* The unified setters.  li is the isLoggedIn of the render whose setter is
\* called: a handler that awaited a response still holds the setter of the
\* render it started in.  A setter called with an updater function applies it
\* to the previous value of the store it writes: prevConfig, prevSessions,
\* prevAnalysis.
prevConfig(li) == IF li THEN OrElse(syncedAppConfig, initialConfig) ELSE localAppConfig
prevSessions(li) == IF li THEN OrElse(syncedSavedSessions, <<>>) ELSE localSavedSessions
prevAnalysis(li) ==
    IF li THEN OrElse(syncedAnalysisState, initialAnalysisState) ELSE localAnalysisState

\* A setter that removes the on-device entry when the value is the default
setAppConfigDroppingDefault(li, value) ==
    IF li THEN /\ syncedAppConfig' = Some(value)
               /\ lsConfig' = lsConfig
    ELSE /\ lsConfig' = IF value = initialConfig THEN None ELSE Some(value)
         /\ syncedAppConfig' = syncedAppConfig
setAppConfig(li, value) ==
    IF li THEN /\ syncedAppConfig' = Some(value)
               /\ lsConfig' = lsConfig
    ELSE /\ lsConfig' = Some(value)
         /\ syncedAppConfig' = syncedAppConfig

setSavedSessions(li, value) ==
    IF li THEN /\ syncedSavedSessions' = Some(value)
               /\ lsSessions' = lsSessions
    ELSE /\ lsSessions' = Some(value)
         /\ syncedSavedSessions' = syncedSavedSessions

setAnalysisState(li, value) ==
    IF li THEN /\ syncedAnalysisState' = Some(value)
               /\ lsAnalysis' = lsAnalysis
    ELSE /\ lsAnalysis' = Some(value)
         /\ syncedAnalysisState' = syncedAnalysisState

configUntouched == UNCHANGED <<lsConfig, syncedAppConfig>>
sessionsUntouched == UNCHANGED <<lsSessions, syncedSavedSessions>>
analysisUntouched == UNCHANGED <<lsAnalysis, syncedAnalysisState>>

----------------------------------------------------------------------------
(* The effects of App, run by the render that follows a step *)

\* What syncData closes over: the on-device values of the render it ran in
SyncClosure(cfg, ses, ana) ==
    [localAppConfig |-> cfg, localSavedSessions |-> ses, localAnalysisState |-> ana]

\* useEffect(syncData, [user, isDataSynced, local...]): a getUserData call is
\* started when the user is set and the data is not synced yet
SyncDataStarts(depsChanged, usr, synced) == depsChanged /\ usr # None /\ ~synced

syncDataEffect(depsChanged, usr, synced, cfg, ses, ana) ==
    IF SyncDataStarts(depsChanged, usr, synced)
    THEN Append(syncCalls, SyncClosure(cfg, ses, ana))
    ELSE syncCalls

\* What the timeout callback will hand to saveUserData
SavePayload(cfg, ses, ana) ==
    [app_settings |-> cfg, library_sessions |-> ses, analysis_state |-> ana]

\* A cleanup that leaves the timeout running
clearTimeoutForgotten(ts) == ts

\* clearTimeout(debounceTimeoutRef.current)
clearTimeout(ts) == SelectSeq(ts, LAMBDA t : ~t.current)

\* window.setTimeout(..., 2000), its id stored in debounceTimeoutRef.current
setTimeout(ts, payload) ==
    Append([k \in 1..Len(ts) |-> [ts[k] EXCEPT !.current = FALSE]],
           [left |-> DebounceDelay, payload |-> payload, current |-> TRUE])

\* A debounced save that is armed for every signed-in user, reconciled or not
debounceEffectUnguarded(depsChanged, usr, synced, cfg, ses, ana) ==
    IF ~depsChanged THEN timeouts
    ELSE IF usr # None
         THEN setTimeout(clearTimeout(timeouts), SavePayload(cfg, ses, ana))
         ELSE clearTimeout(timeouts)
\* useEffect(debounced save, [synced..., user, isDataSynced]): the cleanup of the
\* previous run, then this run
debounceEffect(depsChanged, usr, synced, cfg, ses, ana) ==
    IF ~depsChanged THEN timeouts
    ELSE IF usr # None /\ synced
         THEN setTimeout(clearTimeout(timeouts), SavePayload(cfg, ses, ana))
         ELSE clearTimeout(timeouts)

\* Both effects after a step; ld / md: a dependency of syncData / of the
\* debounced save changed
RunEffects(ld, md) ==
    /\ SyncDataStarts(ld, user', isDataSynced') => Len(syncCalls) < MaxSyncCalls
    /\ syncCalls' = syncDataEffect(ld, user', isDataSynced', localAppConfig',
                                   localSavedSessions', localAnalysisState')
    /\ timeouts' = debounceEffect(md, user', isDataSynced', syncedAppConfig',
                                  syncedSavedSessions', syncedAnalysisState')

\* History: one more change of the mirror for the timeout to stand for
Absorb ==
    IF timeouts # <<>> /\ sinceChange < DebounceDelay
    THEN (IF coalesced < MaxCoalesced THEN coalesced + 1 ELSE coalesced)
    ELSE 1

\* History kept with a step that wrote through a setter of a render with li
NoteWrite(li, op) ==
    /\ lastOp' = op
    /\ sinceChange' = IF li THEN 0 ELSE sinceChange
    /\ refreshed' = IF li THEN FALSE ELSE refreshed
    /\ coalesced' = IF li /\ isDataSynced THEN Absorb ELSE coalesced
    /\ UNCHANGED lsAtSignIn

----------------------------------------------------------------------------
(* Page load *)

\* The mount effect: an analysis left loading on the device is reset
MountAnalysis(entry) ==
    IF useLocalStorage(entry, initialAnalysisState).isLoading
    THEN Some([useLocalStorage(entry, initialAnalysisState) EXCEPT !.isLoading = FALSE])
    ELSE entry

\* window.location.reload(): the in-memory state is rebuilt from the initial
\* values, timers and awaiting handlers are gone, the on-device entries stay.
\* A saveUserData request already in flight may still reach the server.
Reload(op) ==
    /\ lsAnalysis' = MountAnalysis(lsAnalysis)
    /\ UNCHANGED <<lsConfig, lsSessions, remote, pendingSaves, probe>>
    /\ MountUi
    /\ syncedAppConfig' = None
    /\ syncedSavedSessions' = None
    /\ syncedAnalysisState' = None
    /\ user' = None
    /\ isAuthLoading' = TRUE
    /\ isDataSynced' = FALSE
    /\ syncCalls' = <<>>
    /\ timeouts' = <<>>
    /\ fetches' = <<>>
    /\ analyses' = <<>>
    /\ lastOp' = op
    /\ sinceChange' = 0
    /\ refreshed' = FALSE
    /\ coalesced' = 0
    /\ lsAtSignIn' = None

----------------------------------------------------------------------------
(* onAuthStateChange callback *)

\* session is null and no user was set: the synced state and the flags are cleared
AuthNoSession ==
    /\ user = None
    /\ isAuthLoading
    /\ user' = None
    /\ isAuthLoading' = FALSE
    /\ isDataSynced' = FALSE
    /\ syncedAppConfig' = None
    /\ syncedSavedSessions' = None
    /\ syncedAnalysisState' = None
    /\ UNCHANGED <<lsConfig, lsSessions, lsAnalysis, remote, pendingSaves, fetches,
                   analyses, probe, uiVars>>
    /\ RunEffects(FALSE, FALSE)
    /\ lastOp' = "step"
    /\ UNCHANGED <<sinceChange, refreshed, coalesced, lsAtSignIn>>

\* a session arrives while no user was set (restored session, completed sign-in)
AuthSignedIn(u) ==
    /\ user = None
    /\ user' = Some(u)
    /\ isAuthLoading' = FALSE
    /\ UNCHANGED <<lsConfig, lsSessions, lsAnalysis, syncedAppConfig, syncedSavedSessions,
                   syncedAnalysisState, isDataSynced, remote, pendingSaves, fetches,
                   analyses, probe, uiVars>>
    /\ RunEffects(TRUE, TRUE)
    /\ lastOp' = "signIn"
    /\ lsAtSignIn' = Some(<<lsConfig, lsSessions, lsAnalysis>>)
    /\ UNCHANGED <<sinceChange, refreshed, coalesced>>

\* a session arrives for the user already set (token refresh): setUser gets a
\* new user object, so the effects that depend on user run again
AuthTokenRefreshed ==
    /\ user # None
    /\ user' = user
    /\ isAuthLoading' = FALSE
    /\ UNCHANGED <<lsConfig, lsSessions, lsAnalysis, syncedAppConfig, syncedSavedSessions,
                   syncedAnalysisState, isDataSynced, remote, pendingSaves, fetches,
                   analyses, probe, uiVars>>
    /\ RunEffects(TRUE, TRUE)
    /\ lastOp' = "tokenRefresh"
    /\ refreshed' = (isDataSynced \/ refreshed)
    /\ UNCHANGED <<sinceChange, coalesced, lsAtSignIn>>

\* session is null while a user was set (sign-out here or in another tab)
AuthSignedOut ==
    /\ user # None
    /\ Reload("signOut")

----------------------------------------------------------------------------
(* dataService and the reconciliation *)

\* getUserData's result: the row, or null when there is none, when the
\* identity lookup finds no user, or when the read fails
getUserData(outcome) == IF outcome = "row" THEN remote ELSE None

ReadOutcomes == IF remote = None THEN {"none"} ELSE {"row", "error"}

\* A reconciliation that keeps the device's sessions beside the cloud's
AdoptSessionsWithDevice(cloudData) ==
    localSavedSessions \o OrElse(cloudData.library_sessions, <<>>)

\* A reconciliation that merges by savedAt as the merging version does
AdoptSessionsNewer(cloudData) ==
    MergeCloud(localSavedSessions, OrElse(cloudData.library_sessions, <<>>))

\* A reconciliation that takes the remote settings as they are stored
AdoptConfigAsStored(cloudData) == OrElse(cloudData.app_settings, initialConfig)
\* syncData, cloud data found: cloud is the source of truth
AdoptSessions(cloudData) == OrElse(cloudData.library_sessions, <<>>)
AdoptAnalysis(cloudData) == OrElse(cloudData.analysis_state, initialAnalysisState)
AdoptConfig(cloudData) == Spread(initialConfig, OrElse(cloudData.app_settings, <<>>))

\* The continuation of syncData after await getUserData()
GetUserDataDone(i, outcome) ==
    LET cloudData == getUserData(outcome)
        c == syncCalls[i]
        found == cloudData # None
        newSes == IF found THEN AdoptSessions(cloudData[1]) ELSE c.localSavedSessions
        newAna == IF found THEN AdoptAnalysis(cloudData[1]) ELSE c.localAnalysisState
        newCfg == IF found THEN AdoptConfig(cloudData[1]) ELSE c.localAppConfig
        changed == \/ found
                   \/ ~isDataSynced
                   \/ <<syncedAppConfig, syncedSavedSessions, syncedAnalysisState>>
                        # <<Some(newCfg), Some(newSes), Some(newAna)>>
    IN  /\ syncedSavedSessions' = Some(newSes)
        /\ syncedAnalysisState' = Some(newAna)
        /\ syncedAppConfig' = Some(newCfg)
        /\ isDataSynced' = TRUE
        /\ UNCHANGED <<lsConfig, lsSessions, lsAnalysis, user, isAuthLoading, remote,
                       pendingSaves, fetches, analyses, probe, uiVars>>
        /\ syncCalls' = RemoveAt(syncCalls, i)
        /\ timeouts' = debounceEffect(changed, user', isDataSynced', syncedAppConfig',
                                      syncedSavedSessions', syncedAnalysisState')
        /\ lastOp' = IF found THEN "adopt" ELSE "seed"
        /\ sinceChange' = IF changed THEN 0 ELSE sinceChange
        /\ refreshed' = IF changed THEN FALSE ELSE refreshed
        /\ coalesced' = IF changed THEN Absorb ELSE coalesced
        /\ UNCHANGED lsAtSignIn

\* One second passes; a timeout that is due runs before more time passes
Tick ==
    /\ timeouts # <<>>
    /\ \A k \in 1..Len(timeouts) : timeouts[k].left > 0
    /\ timeouts' = [k \in 1..Len(timeouts) |->
                       [timeouts[k] EXCEPT !.left = timeouts[k].left - 1]]
    /\ sinceChange' = IF sinceChange < MaxElapsed THEN sinceChange + 1 ELSE sinceChange
    /\ lastOp' = "step"
    /\ UNCHANGED <<lsConfig, lsSessions, lsAnalysis, syncedAppConfig, syncedSavedSessions,
                   syncedAnalysisState, user, isAuthLoading, isDataSynced, remote,
                   syncCalls, pendingSaves, fetches, analyses, refreshed, coalesced,
                   lsAtSignIn, probe, uiVars>>

\* The timeout callback: saveUserData is called with what the callback closed over
TimeoutCallback(i) ==
    /\ timeouts[i].left = 0
    /\ pendingSaves' = Append(pendingSaves, timeouts[i].payload)
    /\ timeouts' = RemoveAt(timeouts, i)
    /\ lastOp' = "flush"
    /\ UNCHANGED <<lsConfig, lsSessions, lsAnalysis, syncedAppConfig, syncedSavedSessions,
                   syncedAnalysisState, user, isAuthLoading, isDataSynced, remote,
                   syncCalls, fetches, analyses, sinceChange, refreshed, coalesced,
                   lsAtSignIn, probe, uiVars>>

\* The callback of a timeout that is due, while the calls in flight are few
DebounceFire(i) ==
    /\ Len(pendingSaves) < MaxInflight
    /\ TimeoutCallback(i)

\* saveUserData's upsert: the row's three columns are overwritten by the payload
upsert(payload) == Some(payload)

\* A saveUserData that arms the timeout again with its payload when it failed
SaveUserDataDoneRetrying(i, ok) ==
    /\ remote' = IF ok THEN Some(pendingSaves[i]) ELSE remote
    /\ pendingSaves' = RemoveAt(pendingSaves, i)
    /\ timeouts' = IF ok THEN timeouts ELSE setTimeout(clearTimeout(timeouts), pendingSaves[i])
    /\ lastOp' = IF ok THEN "saved" ELSE "saveFailed"
    /\ UNCHANGED <<lsConfig, lsSessions, lsAnalysis, syncedAppConfig, syncedSavedSessions,
                   syncedAnalysisState, user, isAuthLoading, isDataSynced, syncCalls,
                   fetches, analyses, sinceChange, refreshed, coalesced,
                   lsAtSignIn, probe, uiVars>>

\* A saveUserData call ends: the upsert went through, or the identity lookup or
\* the upsert failed and the error was logged
SaveUserDataDone(i, ok) ==
    /\ remote' = IF ok THEN upsert(pendingSaves[i]) ELSE remote
    /\ pendingSaves' = RemoveAt(pendingSaves, i)
    /\ lastOp' = IF ok THEN "saved" ELSE "saveFailed"
    /\ UNCHANGED <<lsConfig, lsSessions, lsAnalysis, syncedAppConfig, syncedSavedSessions,
                   syncedAnalysisState, user, isAuthLoading, isDataSynced, syncCalls,
                   timeouts, fetches, analyses, sinceChange, refreshed, coalesced,
                   lsAtSignIn, probe, uiVars>>

----------------------------------------------------------------------------
(* The identity lookup of dataService, `await supabase.auth.getUser()`, is made
   before the try block of getUserData and of saveUserData.  A lookup that
   reports its failure in the response leaves user null and is part of the
   outcomes above; a lookup whose promise rejects makes the call reject. *)

\* getUserData rejects: syncData, called without a catch, ends in an unhandled
\* rejection before any of its setters ran
GetUserDataRejected(i) ==
    /\ syncCalls' = RemoveAt(syncCalls, i)
    /\ lastOp' = "unhandledRejection"
    /\ UNCHANGED <<lsConfig, lsSessions, lsAnalysis, syncedAppConfig, syncedSavedSessions,
                   syncedAnalysisState, user, isAuthLoading, isDataSynced, remote,
                   timeouts, pendingSaves, fetches, analyses, sinceChange, refreshed,
                   coalesced, lsAtSignIn, probe, uiVars>>

\* saveUserData rejects: the timeout callback does not await it
SaveUserDataRejected(i) ==
    /\ pendingSaves' = RemoveAt(pendingSaves, i)
    /\ lastOp' = "unhandledRejection"
    /\ UNCHANGED <<lsConfig, lsSessions, lsAnalysis, syncedAppConfig, syncedSavedSessions,
                   syncedAnalysisState, user, isAuthLoading, isDataSynced, remote,
                   syncCalls, timeouts, fetches, analyses, sinceChange, refreshed,
                   coalesced, lsAtSignIn, probe, uiVars>>

----------------------------------------------------------------------------
(* Handlers that write through the unified setters *)

\* What a step that called setters of a render with li leaves alone, and the
\* effects that follow it
AfterWrite(li, op) ==
    /\ UNCHANGED <<user, isAuthLoading, isDataSynced, remote, pendingSaves>>
    /\ RunEffects(~li, li)
    /\ NoteWrite(li, op)

\* Header.handleThemeChange
handleThemeChange(newTheme) ==
    /\ setAppConfig(isLoggedIn, [prevConfig(isLoggedIn) EXCEPT !.theme = newTheme])
    /\ sessionsUntouched /\ analysisUntouched
    /\ UNCHANGED <<fetches, analyses>>
    /\ AfterWrite(isLoggedIn, "step")
    /\ UNCHANGED <<probe, uiVars>>

AiChoices == {<<"gemini", "gemini-2.5-pro">>}

\* ApiModal.handleSaveAndClose
handleSaveAndClose(youtubeKeys, geminiKeys, openaiKeys, activeAi) ==
    /\ setAppConfig(isLoggedIn,
                    [prevConfig(isLoggedIn) EXCEPT !.youtube = [key |-> youtubeKeys],
                                                   !.gemini = [key |-> geminiKeys],
                                                   !.openai = [key |-> openaiKeys],
                                                   !.aiProvider = activeAi[1],
                                                   !.aiModel = activeAi[2]])
    /\ sessionsUntouched /\ analysisUntouched
    /\ UNCHANGED <<fetches, analyses>>
    /\ AfterWrite(isLoggedIn, "step")
    /\ UNCHANGED <<probe, uiVars>>

\* The calls in flight once handleFetchVideos reached its first await; without
\* a YouTube key it returns at once, before its try block
FetchVideosStarted(channelUrl) ==
    IF appConfig.youtube.key = ""
    THEN fetches
    ELSE Append(fetches, [li |-> isLoggedIn, kind |-> "fetch", url |-> channelUrl])

\* handleFetchVideos up to its first await
handleFetchVideos(channelUrl) ==
    /\ appConfig.youtube.key # ""
    /\ Len(fetches) < MaxInflight
    /\ fetches' = FetchVideosStarted(channelUrl)
    /\ lastOp' = "step"
    /\ UNCHANGED <<lsConfig, lsSessions, lsAnalysis, syncedAppConfig, syncedSavedSessions,
                   syncedAnalysisState, user, isAuthLoading, isDataSynced, remote,
                   syncCalls, timeouts, pendingSaves, analyses, sinceChange, refreshed,
                   coalesced, lsAtSignIn, probe, uiVars>>

\* An auto-save that pushes without looking for the id
SaveFetchedPushed(list, newSession) == Append(list, newSession)

\* The auto-save of handleFetchVideos: replace the entry with the id, or push
SaveFetched(list, newSession) ==
    IF FindIndex(list, newSession.id) > 0
    THEN [list EXCEPT ![FindIndex(list, newSession.id)] = newSession]
    ELSE Append(list, newSession)

\* prev.filter(url => url !== urlToRemove)
FilterOutUrl(queue, urlToRemove) == SelectSeq(queue, LAMBDA url : url # urlToRemove)

\* The finally block of the handler that made call c
Finally(c) ==
    /\ currentlyAnalyzingUrl' = IF c.kind = "fetch" THEN None ELSE currentlyAnalyzingUrl
    /\ isUpdating' = IF c.kind = "update" THEN FALSE ELSE isUpdating
    /\ updatingSessionId' = IF c.kind = "updateSession" THEN None ELSE updatingSessionId
    /\ UNCHANGED <<transcriptModalState, transcripts>>

\* handleFetchVideos after the responses arrived: the session is saved through
\* the setSavedSessions the handler was created with and the URL leaves the
\* queue
FetchVideosDone(i, id, now) ==
    /\ fetches[i].kind = "fetch"
    /\ setSavedSessions(fetches[i].li,
                        SaveFetched(prevSessions(fetches[i].li), Session(id, now, "yt")))
    /\ configUntouched /\ analysisUntouched
    /\ fetches' = RemoveAt(fetches, i)
    /\ UNCHANGED analyses
    /\ AfterWrite(fetches[i].li, "step")
    /\ channelQueue' = FilterOutUrl(channelQueue, fetches[i].url)
    /\ Finally(fetches[i])
    /\ UNCHANGED probe

\* handleFetchVideos, handleUpdateChannel or handleUpdateSession when a request
\* failed: the error message is set and the finally block runs
FetchVideosFailed(i) ==
    /\ fetches' = RemoveAt(fetches, i)
    /\ lastOp' = "step"
    /\ Finally(fetches[i])
    /\ UNCHANGED <<lsConfig, lsSessions, lsAnalysis, syncedAppConfig, syncedSavedSessions,
                   syncedAnalysisState, user, isAuthLoading, isDataSynced, remote,
                   syncCalls, timeouts, pendingSaves, analyses, sinceChange, refreshed,
                   coalesced, lsAtSignIn, probe, channelQueue>>

\* The lines a submitted text is made of (the text between two line breaks):
\* two spellings of one channel URL, a short link, a link to another site and
\* a line of blanks
QueueLines == {"youtube.com/a", " youtube.com/a ", "youtu.be/b", "example.com/x", "  "}

\* String.prototype.trim on these lines
Trim(line) ==
    CASE line = " youtube.com/a " -> "youtube.com/a"
      [] line = "  " -> ""
      [] OTHER -> line

\* url.includes('youtube.com/') || url.includes('youtu.be/')
IncludesYouTube(url) == url \in {"youtube.com/a", " youtube.com/a ", "youtu.be/b"}

\* urlsText.split('\n').map(trim).filter(...): the URLs of a submitted text
SubmittedUrls(urlsText) ==
    SelectSeq([k \in 1..Len(urlsText) |-> Trim(urlsText[k])],
              LAMBDA url : url # "" /\ IncludesYouTube(url))

\* prev.includes(url)
Includes(queue, url) == \E k \in 1..Len(queue) : queue[k] = url

\* The updater of handleQueueSubmit: the submitted URLs that prev does not
\* hold are put behind prev
QueueSubmitted(prev, urls) ==
    prev \o SelectSeq(urls, LAMBDA url : ~Includes(prev, url))

UiStep ==
    /\ lastOp' = "step"
    /\ UNCHANGED <<lsConfig, lsSessions, lsAnalysis, syncedAppConfig, syncedSavedSessions,
                   syncedAnalysisState, user, isAuthLoading, isDataSynced, remote,
                   syncCalls, timeouts, pendingSaves, analyses, sinceChange, refreshed,
                   coalesced, lsAtSignIn, probe>>

handleQueueSubmit(urlsText) ==
    /\ channelQueue' = IF Len(SubmittedUrls(urlsText)) > 0
                       THEN QueueSubmitted(channelQueue, SubmittedUrls(urlsText))
                       ELSE channelQueue
    /\ UiStep
    /\ UNCHANGED <<fetches, transcriptModalState, transcripts, isUpdating,
                   updatingSessionId, currentlyAnalyzingUrl>>

\* The remove button of a queue entry, disabled while that URL is analysed
handleRemoveFromQueue(urlToRemove) ==
    /\ Includes(channelQueue, urlToRemove)
    /\ currentlyAnalyzingUrl # Some(urlToRemove)
    /\ channelQueue' = FilterOutUrl(channelQueue, urlToRemove)
    /\ UiStep
    /\ UNCHANGED <<fetches, transcriptModalState, transcripts, isUpdating,
                   updatingSessionId, currentlyAnalyzingUrl>>

\* The analyze button of a queue entry, up to the first await of
\* handleFetchVideos: the handler returns at once while a URL is marked
handleAnalyzeFromQueue(url) ==
    /\ Includes(channelQueue, url)
    /\ currentlyAnalyzingUrl = None
    /\ currentlyAnalyzingUrl' = Some(url)
    /\ fetches' = FetchVideosStarted(url)
    /\ UiStep
    /\ UNCHANGED <<transcriptModalState, transcripts, isUpdating, updatingSessionId,
                   channelQueue>>
\* The update button of AnalysisTools, which App hands isUpdating and nothing
\* else about running operations: disabled while isUpdating
UpdateChannelEnabled == ~isUpdating

\* The update buttons of LibraryModal: disabled={!!updatingSessionId}
UpdateSessionEnabled == updatingSessionId = None

\* handleUpdateChannel, from its button, up to its first await.  The channel on
\* screen (channelInfo) is not part of the state: any channel may be the one
\* shown.
UpdateChannelStarts ==
    /\ UpdateChannelEnabled
    /\ appConfig.youtube.key # ""
    /\ isUpdating' = TRUE
    /\ fetches' = Append(fetches, [li |-> isLoggedIn, kind |-> "update", url |-> ""])
    /\ lastOp' = "step"
    /\ UNCHANGED <<lsConfig, lsSessions, lsAnalysis, syncedAppConfig, syncedSavedSessions,
                   syncedAnalysisState, user, isAuthLoading, isDataSynced, remote,
                   syncCalls, timeouts, pendingSaves, analyses, sinceChange, refreshed,
                   coalesced, lsAtSignIn, probe, transcriptModalState, transcripts,
                   updatingSessionId, channelQueue, currentlyAnalyzingUrl>>

handleUpdateChannel == Len(fetches) < MaxInflight /\ UpdateChannelStarts

\* handleUpdateSession, from a button of the library, up to its first await
UpdateSessionStarts(sessionId) ==
    /\ UpdateSessionEnabled
    /\ sessionId \in IdsOf(savedSessions)
    /\ appConfig.youtube.key # ""
    /\ updatingSessionId' = Some(sessionId)
    /\ fetches' = Append(fetches, [li |-> isLoggedIn, kind |-> "updateSession", url |-> ""])
    /\ lastOp' = "step"
    /\ UNCHANGED <<lsConfig, lsSessions, lsAnalysis, syncedAppConfig, syncedSavedSessions,
                   syncedAnalysisState, user, isAuthLoading, isDataSynced, remote,
                   syncCalls, timeouts, pendingSaves, analyses, sinceChange, refreshed,
                   coalesced, lsAtSignIn, probe, transcriptModalState, transcripts,
                   isUpdating, channelQueue, currentlyAnalyzingUrl>>

handleUpdateSession(sessionId) == Len(fetches) < MaxInflight /\ UpdateSessionStarts(sessionId)

\* An update that saves the refreshed session under its id in any case
SaveUpdatedPushing(list, updatedSession) ==
    IF FindIndex(list, updatedSession.id) > 0
    THEN [list EXCEPT ![FindIndex(list, updatedSession.id)] = updatedSession]
    ELSE Append(list, updatedSession)

\* The save of handleUpdateChannel and handleUpdateSession: the entry with the
\* id is replaced, a session whose id is not in the list is dropped
SaveUpdated(list, updatedSession) ==
    IF FindIndex(list, updatedSession.id) > 0
    THEN [list EXCEPT ![FindIndex(list, updatedSession.id)] = updatedSession]
    ELSE list

\* handleUpdateChannel / handleUpdateSession after the responses arrived; id is
\* the id YouTube resolved the channel's URL to
UpdateDone(i, id, now) ==
    /\ fetches[i].kind \in {"update", "updateSession"}
    /\ setSavedSessions(fetches[i].li,
                        SaveUpdated(prevSessions(fetches[i].li), Session(id, now, "yt")))
    /\ configUntouched /\ analysisUntouched
    /\ fetches' = RemoveAt(fetches, i)
    /\ UNCHANGED analyses
    /\ AfterWrite(fetches[i].li, "updated")
    /\ Finally(fetches[i])
    /\ UNCHANGED <<probe, channelQueue>>

\* handleDeleteSession, confirmed
handleDeleteSession(sessionId) ==
    /\ sessionId \in IdsOf(savedSessions)
    /\ setSavedSessions(isLoggedIn, FilterOutId(savedSessions, sessionId))
    /\ configUntouched /\ analysisUntouched
    /\ UNCHANGED <<fetches, analyses>>
    /\ AfterWrite(isLoggedIn, "step")
    /\ UNCHANGED <<probe, uiVars>>

\* An import that keeps the later savedAt
MergeImportNewer(existing, importedSessions) == MergeCloud(existing, importedSessions)

\* The merge of handleImportSessions: the library first, then the file, in a Map
\* keyed by id
MergeImport(existing, importedSessions) ==
    MapSetAll(MapSetAll(<<>>, existing), importedSessions)

\* handleImportSessions with a file that passed its checks
handleImportSessions(importedSessions) ==
    /\ setSavedSessions(isLoggedIn, MergeImport(savedSessions, importedSessions))
    /\ configUntouched /\ analysisUntouched
    /\ UNCHANGED <<fetches, analyses>>
    /\ AfterWrite(isLoggedIn, "import")

\* An import in the running application
ImportFile(importedSessions) ==
    /\ handleImportSessions(importedSessions)
    /\ UNCHANGED <<probe, uiVars>>

\* An import whose library, file and outcome are kept for inspection
ProbeImport(importedSessions) ==
    /\ probe = None
    /\ handleImportSessions(importedSessions)
    /\ probe' = Some([site |-> "import", existing |-> savedSessions,
                      incoming |-> importedSessions, result |-> savedSessions'])
    /\ UNCHANGED uiVars

AnalysisLoading == [isLoading |-> TRUE, error |-> NULL, result |-> "", isComplete |-> FALSE]
AnalysisDone(result) ==
    [isLoading |-> FALSE, error |-> NULL, result |-> result, isComplete |-> TRUE]
\* An error state that leaves the loading flag set
AnalysisErrorStillLoading(message) ==
    [isLoading |-> TRUE, error |-> message, result |-> "", isComplete |-> TRUE]

AnalysisError(message) ==
    [isLoading |-> FALSE, error |-> message, result |-> "", isComplete |-> TRUE]

\* handleStartCompetitiveAnalysis up to its await; the modal offers the start
\* button while the analysis is neither loading nor complete
handleStartCompetitiveAnalysis(selectedChannelIds) ==
    /\ ~analysisState.isLoading /\ ~analysisState.isComplete
    /\ selectedChannelIds \subseteq IdsOf(savedSessions)
    /\ Cardinality(selectedChannelIds) >= 2
    /\ IF appConfig.aiProvider # "gemini"
       THEN /\ setAnalysisState(isLoggedIn, AnalysisError("needsGemini"))
            /\ UNCHANGED analyses
       ELSE /\ Len(analyses) < MaxInflight
            /\ setAnalysisState(isLoggedIn, AnalysisLoading)
            /\ analyses' = Append(analyses, [li |-> isLoggedIn])
    /\ configUntouched /\ sessionsUntouched
    /\ UNCHANGED fetches
    /\ AfterWrite(isLoggedIn, "submit")
    /\ UNCHANGED <<probe, uiVars>>

\* handleStartCompetitiveAnalysis after performCompetitiveAnalysis returned or threw
CompetitiveAnalysisDone(i, ok) ==
    /\ setAnalysisState(analyses[i].li,
                        IF ok THEN AnalysisDone("report") ELSE AnalysisError("failed"))
    /\ configUntouched /\ sessionsUntouched
    /\ analyses' = RemoveAt(analyses, i)
    /\ UNCHANGED fetches
    /\ AfterWrite(analyses[i].li, "response")
    /\ UNCHANGED <<probe, uiVars>>

\* handleResetCompetitiveAnalysis; the button is shown with a complete analysis
handleResetCompetitiveAnalysis ==
    /\ analysisState.isComplete
    /\ setAnalysisState(isLoggedIn, initialAnalysisState)
    /\ configUntouched /\ sessionsUntouched
    /\ UNCHANGED <<fetches, analyses>>
    /\ AfterWrite(isLoggedIn, "reset")
    /\ UNCHANGED <<probe, uiVars>>

\* A property whose value is undefined reads like a property that is absent
Undefined == "undefined"

\* An export that leaves the page token out
JSONstringifyObjectWithoutToken(s) ==
    SelectSeq([j \in 1..3 |-> <<(<<"id", "savedAt", "data">>)[j],
                                s[(<<"id", "savedAt", "data">>)[j]]>>],
              LAMBDA m : m[1] \in DOMAIN s)

\* JSON.stringify of a session: its members in the order the properties were
\* created in; a property whose value is undefined is left out
JSONstringifyObject(s) ==
    LET keys == SelectSeq(<<"id", "savedAt", "data", "nextPageToken">>,
                          LAMBDA k : k \in DOMAIN s)
    IN  SelectSeq([j \in 1..Len(keys) |-> <<keys[j], s[keys[j]]>>],
                  LAMBDA m : m[1] # "nextPageToken" \/ m[2] # Undefined)

\* JSON.stringify(savedSessions, null, 2): the document, as the members of
\* each element of the array
JSONstringify(list) == [k \in 1..Len(list) |-> JSONstringifyObject(list[k])]

\* JSON.parse of the document: an object per element, a property per member
JSONparse(document) ==
    [k \in 1..Len(document) |->
        [key \in {document[k][j][1] : j \in 1..Len(document[k])} |->
            document[k][CHOOSE j \in 1..Len(document[k]) : document[k][j][1] = key][2]]]

\* handleExportJson: with an empty library it only alerts; otherwise the
\* document is downloaded.  The document and the library it was made from
\* are kept for inspection.
handleExportJson ==
    /\ savedSessions # <<>>
    /\ probe = None
    /\ probe' = Some([site |-> "export", original |-> savedSessions,
                      document |-> JSONstringify(savedSessions)])
    /\ lastOp' = "export"
    /\ UNCHANGED <<lsConfig, lsSessions, lsAnalysis, syncedAppConfig, syncedSavedSessions,
                   syncedAnalysisState, user, isAuthLoading, isDataSynced, remote,
                   syncCalls, timeouts, pendingSaves, fetches, analyses, sinceChange,
                   refreshed, coalesced, lsAtSignIn, uiVars>>

\* The checks of handleImportSessions on the parsed file, an array: the first
\* element has an id, channel metadata and videos
ImportAccepted(importedSessions) ==
    importedSessions = <<>> \/ {"id", "data"} \subseteq DOMAIN Head(importedSessions)

\* LibraryModal.handleFileChange with the exported document, on an empty
\* library: the file is parsed and passed to handleImportSessions, which
\* leaves the library alone when its checks fail.  The outcome is kept with
\* the document.
ImportDocument ==
    /\ probe # None
    /\ probe[1].site = "export"
    /\ savedSessions = <<>>
    /\ IF ImportAccepted(JSONparse(probe[1].document))
       THEN handleImportSessions(JSONparse(probe[1].document))
       ELSE UNCHANGED syncVars
    /\ probe' = Some([site |-> "reimported", original |-> probe[1].original,
                      document |-> probe[1].document, result |-> savedSessions'])
    /\ UNCHANGED uiVars
\* The user reloads the page
PageReload == Reload("reload")
\* Header.handleClearCache, confirmed: window.localStorage.clear(), then reload.
\* With every key gone the hooks start from their initial values.
handleClearCache ==
    /\ lsConfig' = None
    /\ lsSessions' = None
    /\ lsAnalysis' = None
    /\ UNCHANGED <<remote, pendingSaves, probe>>
    /\ MountUi
    /\ syncedAppConfig' = None
    /\ syncedSavedSessions' = None
    /\ syncedAnalysisState' = None
    /\ user' = None
    /\ isAuthLoading' = TRUE
    /\ isDataSynced' = FALSE
    /\ syncCalls' = <<>>
    /\ timeouts' = <<>>
    /\ fetches' = <<>>
    /\ analyses' = <<>>
    /\ lastOp' = IF <<lsConfig, lsSessions, lsAnalysis>> # <<None, None, None>>
                 THEN "cleared" ELSE "step"
    /\ sinceChange' = 0
    /\ refreshed' = FALSE
    /\ coalesced' = 0
    /\ lsAtSignIn' = None

----------------------------------------------------------------------------
(* The transcript modal *)

Videos == {"v1", "v2"}

\* The transcript a provider writes for a video, and the messages of the errors
TranscriptOf(video) == <<"transcript", video>>
TranscriptErrors == {"failed"}
NoProviderKey == "noKey"

\* The active provider's key is set and not blank
providerHasKey ==
    IF appConfig.aiProvider = "gemini" THEN appConfig.gemini.key # ""
                                       ELSE appConfig.openai.key # ""

\* s => (s.currentVideoId === video.id ? { ...s, isLoading: false, error } : s)
GuardedError(s, video, errorMsg) ==
    IF s.currentVideoId = Some(video)
    THEN [s EXCEPT !.isLoading = FALSE, !.error = errorMsg]
    ELSE s

\* s => (s.currentVideoId === video.id ? { ...s, isLoading: false, transcript } : s)
GuardedTranscript(s, video, transcriptText) ==
    IF s.currentVideoId = Some(video)
    THEN [s EXCEPT !.isLoading = FALSE, !.transcript = transcriptText]
    ELSE s

\* The modal as handleGetTranscript opens it
Opened(video) ==
    [isOpen |-> TRUE, video |-> Some(video), transcript |-> "", isLoading |-> TRUE,
     error |-> NULL, currentVideoId |-> Some(video)]

\* History: no call in flight is the one the modal waits on any more
Superseded(calls) == [k \in 1..Len(calls) |-> [calls[k] EXCEPT !.current = FALSE]]

\* handleGetTranscript, from a row of the video table, up to its first await.
\* The open modal covers the table, so a transcript is requested with the
\* modal closed.  Without a key of the active provider the error is set at
\* once and no request is made.
handleGetTranscript(video) ==
    /\ ~transcriptModalState.isOpen
    /\ providerHasKey => Len(transcripts) < MaxTranscripts
    /\ transcriptModalState' = IF providerHasKey
                               THEN Opened(video)
                               ELSE GuardedError(Opened(video), video, NoProviderKey)
    /\ transcripts' = IF providerHasKey
                      THEN Append(Superseded(transcripts),
                                  [video |-> video, current |-> TRUE])
                      ELSE Superseded(transcripts)
    /\ lastOp' = "step"
    /\ UNCHANGED <<lsConfig, lsSessions, lsAnalysis, syncedAppConfig, syncedSavedSessions,
                   syncedAnalysisState, user, isAuthLoading, isDataSynced, remote,
                   syncCalls, timeouts, pendingSaves, fetches, analyses, sinceChange,
                   refreshed, coalesced, lsAtSignIn, probe, isUpdating,
                   updatingSessionId, channelQueue, currentlyAnalyzingUrl>>

\* handleGetTranscript after its await: the transcript, or the message of the
\* error caught, goes through the guarded update
TranscriptDone(i, outcome) ==
    /\ transcriptModalState' =
           IF outcome = "transcript"
           THEN GuardedTranscript(transcriptModalState, transcripts[i].video,
                                  TranscriptOf(transcripts[i].video))
           ELSE GuardedError(transcriptModalState, transcripts[i].video, outcome)
    /\ transcripts' = RemoveAt(transcripts, i)
    /\ lastOp' = IF transcripts[i].current THEN "transcript" ELSE "staleTranscript"
    /\ UNCHANGED <<lsConfig, lsSessions, lsAnalysis, syncedAppConfig, syncedSavedSessions,
                   syncedAnalysisState, user, isAuthLoading, isDataSynced, remote,
                   syncCalls, timeouts, pendingSaves, fetches, analyses, sinceChange,
                   refreshed, coalesced, lsAtSignIn, probe, isUpdating,
                   updatingSessionId, channelQueue, currentlyAnalyzingUrl>>

\* TranscriptModal onClose: setTranscriptModalState(initialTranscriptState)
TranscriptModalClose ==
    /\ transcriptModalState.isOpen
    /\ transcriptModalState' = initialTranscriptState
    /\ transcripts' = Superseded(transcripts)
    /\ lastOp' = "step"
    /\ UNCHANGED <<lsConfig, lsSessions, lsAnalysis, syncedAppConfig, syncedSavedSessions,
                   syncedAnalysisState, user, isAuthLoading, isDataSynced, remote,
                   syncCalls, timeouts, pendingSaves, fetches, analyses, sinceChange,
                   refreshed, coalesced, lsAtSignIn, probe, isUpdating,
                   updatingSessionId, channelQueue, currentlyAnalyzingUrl>>

----------------------------------------------------------------------------
(* The merging App version: every piece of state lives in the on-device hooks,
   and syncData merges the cloud sessions into the on-device ones *)

\* onAuthStateChange callback of the merging version: setUser(session.user)
MergingAuthSignedIn(u) ==
    /\ user = None
    /\ user' = Some(u)
    /\ isAuthLoading' = FALSE
    /\ syncCalls' = Append(syncCalls, SyncClosure(localAppConfig, localSavedSessions,
                                                  localAnalysisState))
    /\ lastOp' = "signIn"
    /\ lsAtSignIn' = Some(<<lsConfig, lsSessions, lsAnalysis>>)
    /\ UNCHANGED <<lsConfig, lsSessions, lsAnalysis, syncedAppConfig, syncedSavedSessions,
                   syncedAnalysisState, isDataSynced, remote, timeouts, pendingSaves,
                   fetches, analyses, sinceChange, refreshed, coalesced, probe, uiVars>>

\* The continuation of the merging syncData after await getUserData()
MergingGetUserDataDone(i, outcome) ==
    LET cloudData == getUserData(outcome)
        c == syncCalls[i]
        found == cloudData # None
        cloudSessions == OrElse(cloudData[1].library_sessions, <<>>)
    IN  /\ lsSessions' = IF found
                         THEN Some(MergeCloud(c.localSavedSessions, cloudSessions))
                         ELSE lsSessions
        /\ lsAnalysis' = IF found /\ cloudData[1].analysis_state # None
                         THEN cloudData[1].analysis_state
                         ELSE lsAnalysis
        /\ lsConfig' = IF found /\ cloudData[1].app_settings # None
                       THEN Some(Spread(initialConfig, cloudData[1].app_settings[1]))
                       ELSE lsConfig
        /\ isDataSynced' = TRUE
        /\ syncCalls' = RemoveAt(syncCalls, i)
        /\ timeouts' = debounceEffect(TRUE, user, TRUE, Some(localAppConfig'),
                                      Some(localSavedSessions'), Some(localAnalysisState'))
        /\ probe' = IF found
                    THEN Some([site |-> "sync", existing |-> c.localSavedSessions,
                               incoming |-> cloudSessions, result |-> localSavedSessions'])
                    ELSE probe
        /\ lastOp' = IF found THEN "merge" ELSE "step"
        /\ sinceChange' = 0
        /\ refreshed' = FALSE
        /\ coalesced' = 1
        /\ UNCHANGED <<syncedAppConfig, syncedSavedSessions, syncedAnalysisState, user,
                       isAuthLoading, remote, pendingSaves, fetches, analyses, lsAtSignIn, uiVars>>

----------------------------------------------------------------------------
(* geminiService: executeWithKeyRotation.  A string is the sequence of its
   characters. *)

KeyChars == {"k", "j", " ", ",", "\n"}
Separators == {",", "\n"}
Whitespace == {" ", "\n"}

KeyStrings == SeqsUpTo(KeyChars, MaxKeyChars)

RECURSIVE DropSeparators(_)
DropSeparators(str) ==
    IF str # <<>> /\ Head(str) \in Separators THEN DropSeparators(Tail(str)) ELSE str

\* String.prototype.split(/[\n,]+/): the pieces between runs of separators;
\* cur is the piece being read
RECURSIVE split(_, _)
split(str, cur) ==
    IF str = <<>> THEN <<cur>>
    ELSE IF Head(str) \in Separators
         THEN <<cur>> \o split(DropSeparators(Tail(str)), <<>>)
         ELSE split(Tail(str), Append(cur, Head(str)))

\* String.prototype.trim
trim(k) ==
    LET ns == {i \in 1..Len(k) : k[i] \notin Whitespace}
    IN  IF ns = {} THEN <<>>
        ELSE SubSeq(k, CHOOSE i \in ns : \A j \in ns : i <= j,
                       CHOOSE i \in ns : \A j \in ns : i >= j)

\* A key list that keeps the empty entries
ParseKeysUnfiltered(keysString) ==
    [i \in 1..Len(split(keysString, <<>>)) |-> trim(split(keysString, <<>>)[i])]

\* keysString.split(/[\n,]+/).map(k => k.trim()).filter(Boolean)
ParseKeys(keysString) ==
    SelectSeq([i \in 1..Len(split(keysString, <<>>)) |-> trim(split(keysString, <<>>)[i])],
              LAMBDA k : k # <<>>)

\* What apiRequest may throw, and what it returns for a key
RequestErrors == {[message |-> "quota"], [message |-> "invalid"]}
ResultOf(key) == [by |-> key]

NoKeysError == [message |-> <<"noKeys">>]
AllKeysFailedError(lastError) == [message |-> <<"allFailed", lastError.message>>]

\* A call of executeWithKeyRotation: how the call before it ended, the keys, the
\* keys apiRequest was invoked with so far, the errors caught so far, and how
\* the call ended
Rotation(earlier, keysString, keys, attempted, errors, lastError, status, result, error) ==
    [site |-> "rotation", earlier |-> earlier, keysString |-> keysString, keys |-> keys,
     attempted |-> attempted, errors |-> errors, lastError |-> lastError,
     status |-> status, result |-> result, error |-> error]

\* executeWithKeyRotation up to its first await: no key, or apiRequest(keys[0])
executeWithKeyRotation(keysString) ==
    LET keys == ParseKeys(keysString)
        earlier == IF probe = None THEN "none" ELSE probe[1].status
    IN  /\ probe # None => probe[1].status # "pending"
        /\ probe' = Some(IF Len(keys) = 0
                         THEN Rotation(earlier, keysString, keys, <<>>, <<>>, None, "thrown",
                                       None, Some(NoKeysError))
                         ELSE Rotation(earlier, keysString, keys, <<keys[1]>>, <<>>, None,
                                       "pending", None, None))
        /\ UNCHANGED <<syncVars, uiVars>>

\* A catch block that keeps the first error
CaughtFirst(lastError, error) == IF lastError = None THEN Some(error) ELSE lastError

\* catch (error) { lastError = error; ... }
Caught(lastError, error) == Some(error)

\* A loop that returns the first key's result whichever key succeeded
ApiRequestResolvedAsFirstKey ==
    /\ probe # None
    /\ probe[1].status = "pending"
    /\ probe' = Some([probe[1] EXCEPT !.status = "returned",
                                      !.result = Some(ResultOf(probe[1].keys[1]))])
    /\ UNCHANGED <<syncVars, uiVars>>
\* apiRequest(key) resolved: its result is returned
ApiRequestResolved ==
    /\ probe # None
    /\ probe[1].status = "pending"
    /\ probe' = Some([probe[1] EXCEPT
                         !.status = "returned",
                         !.result = Some(ResultOf(probe[1].keys[Len(probe[1].attempted)]))])
    /\ UNCHANGED <<syncVars, uiVars>>

\* apiRequest(key) rejected: the error is kept and the loop goes on to the next
\* key, or throws after the last one
ApiRequestRejected(error) ==
    LET r == probe[1]
        i == Len(r.attempted)
        lastError == Caught(r.lastError, error)
    IN  /\ probe # None
        /\ r.status = "pending"
        /\ probe' = Some(IF i < Len(r.keys)
                         THEN [r EXCEPT !.lastError = lastError,
                                        !.errors = Append(r.errors, error),
                                        !.attempted = Append(r.attempted, r.keys[i + 1])]
                         ELSE [r EXCEPT !.lastError = lastError,
                                        !.errors = Append(r.errors, error),
                                        !.status = "thrown",
                                        !.error = Some(AllKeysFailedError(lastError[1]))])
        /\ UNCHANGED <<syncVars, uiVars>>

----------------------------------------------------------------------------
(* utils/formatters: parseISO8601Duration.  A string is the sequence of its
   characters. *)

Digits == <<"0", "1", "2", "3", "4", "5", "6", "7", "8", "9">>

\* \d+ at position p: the number of digits that follow one another from p on
RECURSIVE DigitRun(_, _)
DigitRun(str, p) ==
    IF p <= Len(str) /\ (\E d \in 1..10 : Digits[d] = str[p])
    THEN 1 + DigitRun(str, p + 1)
    ELSE 0

\* (?:(\d+)X)? at position p: the group's text and the position after the
\* component, or an unmatched group (undefined) and p itself
Component(str, p, unit) ==
    LET n == DigitRun(str, p)
    IN  IF n > 0 /\ p + n <= Len(str) /\ str[p + n] = unit
        THEN [group |-> Some(SubSeq(str, p, p + n - 1)), next |-> p + n + 1]
        ELSE [group |-> None, next |-> p]

\* parseInt(text, 10) of a text of digits
RECURSIVE parseInt(_)
parseInt(text) ==
    IF text = <<>> THEN 0
    ELSE 10 * parseInt(SubSeq(text, 1, Len(text) - 1))
             + ((CHOOSE d \in 1..10 : Digits[d] = text[Len(text)]) - 1)

\* Number.prototype.toString of a natural number
RECURSIVE toString(_)
toString(num) ==
    IF num < 10 THEN <<Digits[num + 1]>>
    ELSE Append(toString(num \div 10), Digits[(num % 10) + 1])

\* A format that keeps the last two digits
formatTruncating(num) == <<Digits[((num \div 10) % 10) + 1], Digits[(num % 10) + 1]>>

\* format: num.toString().padStart(2, '0')
format(num) == IF Len(toString(num)) < 2 THEN <<"0">> \o toString(num) ELSE toString(num)

\* duration.match(/PT(?:(\d+)H)?(?:(\d+)M)?(?:(\d+)S)?/) and the formatting of
\* its groups; the match starts at the first "PT" of the string
parseISO8601Duration(duration) ==
    LET starts == {i \in 1..(Len(duration) - 1) : duration[i] = "P" /\ duration[i + 1] = "T"}
        start == CHOOSE i \in starts : \A j \in starts : i <= j
        h == Component(duration, start + 2, "H")
        m == Component(duration, h.next, "M")
        s == Component(duration, m.next, "S")
        hours == parseInt(OrElse(h.group, <<"0">>))
        minutes == parseInt(OrElse(m.group, <<"0">>))
        seconds == parseInt(OrElse(s.group, <<"0">>))
    IN  IF starts = {} THEN <<"0", "0", ":", "0", "0">>
        ELSE IF hours > 0
             THEN format(hours) \o <<":">> \o format(minutes) \o <<":">> \o format(seconds)
             ELSE format(minutes) \o <<":">> \o format(seconds)

\* The numbers written in the durations, and what may stand before them
Numerals == {<<"0">>, <<"5">>, <<"0", "7">>, <<"1", "2">>, <<"1", "0", "0">>}
Prefixes == {<<>>, <<"P", "T">>, <<"P">>, <<"T">>, <<"x", "P", "T">>, <<"P", "1", "D", "T">>}

\* The pieces that follow the prefix: a number with its unit, or other text
Pieces ==
    {[text |-> n, unit |-> u] : n \in Numerals, u \in {"H", "M", "S"}}
        \cup {[text |-> <<"1", ".", "5">>, unit |-> "S"], [text |-> <<"x">>, unit |-> ""]}

RECURSIVE Concat(_)
Concat(pieces) ==
    IF pieces = <<>> THEN <<>>
    ELSE Head(pieces).text
             \o (IF Head(pieces).unit = "" THEN <<>> ELSE <<Head(pieces).unit>>)
             \o Concat(Tail(pieces))

\* A call of parseISO8601Duration; what the string was made of is kept with
\* the result
ParseDuration(prefix, pieces) ==
    /\ probe = None
    /\ probe' = Some([site |-> "duration", prefix |-> prefix, pieces |-> pieces,
                      duration |-> prefix \o Concat(pieces),
                      result |-> parseISO8601Duration(prefix \o Concat(pieces))])
    /\ UNCHANGED <<syncVars, uiVars>>

----------------------------------------------------------------------------
(* The application: every interleaving of handlers, auth events, timers and
   responses *)

\* A row another device of the account wrote, and a row of an older client
\* whose settings lack fields and whose other columns are null
CloudConfig == [initialConfig EXCEPT !.youtube = [key |-> "yk"]]

OlderSettings == [youtube |-> [key |-> "yk"]]

RemoteRows ==
    { [app_settings |-> Some(CloudConfig),
       library_sessions |-> Some(<<Session("c1", 1, "cloud")>>),
       analysis_state |-> Some(AnalysisDone("cloudReport"))],
      [app_settings |-> Some(OlderSettings),
       library_sessions |-> None,
       analysis_state |-> None] }

\* A fresh page load on a device whose storage holds cfg, ses and ana
Loaded(cfg, ses, ana, row) ==
    /\ lsConfig = cfg
    /\ lsSessions = ses
    /\ lsAnalysis = ana
    /\ syncedAppConfig = None
    /\ syncedSavedSessions = None
    /\ syncedAnalysisState = None
    /\ user = None
    /\ isAuthLoading = TRUE
    /\ isDataSynced = FALSE
    /\ remote = row
    /\ syncCalls = <<>>
    /\ timeouts = <<>>
    /\ pendingSaves = <<>>
    /\ fetches = <<>>
    /\ analyses = <<>>
    /\ lastOp = "init"
    /\ sinceChange = 0
    /\ refreshed = FALSE
    /\ coalesced = 0
    /\ lsAtSignIn = None
    /\ probe = None
    /\ transcriptModalState = initialTranscriptState
    /\ transcripts = <<>>
    /\ isUpdating = FALSE
    /\ updatingSessionId = None
    /\ channelQueue = <<>>
    /\ currentlyAnalyzingUrl = None

\* First visit: nothing stored on the device
Init == \E row \in {None} \cup {Some(r) : r \in RemoteRows} : Loaded(None, None, None, row)

Next ==
    \/ AuthNoSession
    \/ \E u \in Users : AuthSignedIn(u)
    \/ AuthTokenRefreshed
    \/ AuthSignedOut
    \/ \E i \in 1..Len(syncCalls) : \E outcome \in ReadOutcomes : GetUserDataDone(i, outcome)
    \/ Tick
    \/ \E i \in 1..Len(timeouts) : DebounceFire(i)
    \/ \E i \in 1..Len(pendingSaves) : \E ok \in BOOLEAN : SaveUserDataDone(i, ok)
    \/ \E yk \in KeyBlobs : \E ai \in AiChoices : handleSaveAndClose(yk, "", "", ai)
    \/ handleFetchVideos(DirectUrl)
    \/ \E i \in 1..Len(fetches) : FetchVideosDone(i, "c2", MaxStamp)
    \/ \E i \in 1..Len(fetches) : FetchVideosFailed(i)
    \/ handleClearCache

Spec == Init /\ [][Next]_vars

----------------------------------------------------------------------------
(* The session library: every operation on the collection, on a device that
   starts with an empty library *)

\* Files the user may pick: any list of at most two sessions, ids may repeat
FileSessions == {Session(i, t, "file") : i \in Ids, t \in Stamps}
ImportFiles == {<<>>} \cup {<<a>> : a \in FileSessions}
                    \cup {<<a, b>> : a \in FileSessions, b \in FileSessions}

\* Files exported before anything now in the library was saved
OldFiles == {file \in ImportFiles : \A k \in 1..Len(file) : file[k].savedAt = 1}

NextLibrary ==
    \/ AuthNoSession
    \/ \E u \in Users : AuthSignedIn(u)
    \/ AuthSignedOut
    \/ \E i \in 1..Len(syncCalls) : \E outcome \in ReadOutcomes : GetUserDataDone(i, outcome)
    \/ \E ai \in AiChoices : handleSaveAndClose("yk", "", "", ai)
    \/ handleFetchVideos(DirectUrl)
    \/ \E i \in 1..Len(fetches) : \E id \in Ids : FetchVideosDone(i, id, MaxStamp)
    \/ handleUpdateChannel
    \/ \E id \in Ids : handleUpdateSession(id)
    \/ \E i \in 1..Len(fetches) : \E id \in Ids : UpdateDone(i, id, MaxStamp)
    \/ \E i \in 1..Len(fetches) : FetchVideosFailed(i)
    \/ \E id \in Ids : handleDeleteSession(id)
    \/ \E file \in OldFiles : ImportFile(file)

SpecLibrary == Init /\ [][NextLibrary]_vars

----------------------------------------------------------------------------
(* The merges on their own: a device that holds a library from earlier visits,
   an account whose row holds any library, one import, one reconciliation *)

\* Collections the application keeps: at most one session per id
UniqueLists(S) == {list \in SeqsUpTo(S, Cardinality(Ids)) : UniqueIds(list)}

DeviceLibraries == UniqueLists({Session(i, t, "dev") : i \in Ids, t \in Stamps})
CloudLibraries == UniqueLists({Session(i, t, "cloud") : i \in Ids, t \in Stamps})

DeviceConfig == [initialConfig EXCEPT !.theme = "green", !.youtube = [key |-> "dk"]]

EmptyRow == [app_settings |-> None, library_sessions |-> None, analysis_state |-> None]

MergeRows ==
    {[r EXCEPT !.library_sessions = lib] :
        r \in RemoteRows \cup {EmptyRow}, lib \in {None} \cup {Some(l) : l \in CloudLibraries}}

InitMerge ==
    \E ses \in {None} \cup {Some(l) : l \in DeviceLibraries} :
        \E row \in {None} \cup {Some(r) : r \in MergeRows} :
            \/ Loaded(None, ses, None, row)
            \/ Loaded(Some(DeviceConfig), ses, Some(AnalysisDone("deviceReport")), row)

NextMerge ==
    \/ AuthNoSession
    \/ \E u \in Users : AuthSignedIn(u)
    \/ \E i \in 1..Len(syncCalls) : \E outcome \in ReadOutcomes : GetUserDataDone(i, outcome)
    \/ \E file \in ImportFiles : ProbeImport(file)

SpecMerge == InitMerge /\ [][NextMerge]_vars

NextCloudMerge ==
    \/ \E u \in Users : MergingAuthSignedIn(u)
    \/ \E i \in 1..Len(syncCalls) : \E outcome \in ReadOutcomes :
           MergingGetUserDataDone(i, outcome)
    \/ Tick
    \/ \E i \in 1..Len(timeouts) : DebounceFire(i)
    \/ \E i \in 1..Len(pendingSaves) : \E ok \in BOOLEAN : SaveUserDataDone(i, ok)

SpecCloudMerge == InitMerge /\ [][NextCloudMerge]_vars

----------------------------------------------------------------------------
(* The remote calls under every outcome of the identity lookup, the read and
   the write: sign-in, reconciliation, edits of the settings, the flush *)

NextRemote ==
    \/ AuthNoSession
    \/ \E u \in Users : AuthSignedIn(u)
    \/ AuthTokenRefreshed
    \/ \E i \in 1..Len(syncCalls) : \E outcome \in ReadOutcomes : GetUserDataDone(i, outcome)
    \/ \E i \in 1..Len(syncCalls) : GetUserDataRejected(i)
    \/ Tick
    \/ \E i \in 1..Len(timeouts) : DebounceFire(i)
    \/ \E i \in 1..Len(pendingSaves) : \E ok \in BOOLEAN : SaveUserDataDone(i, ok)
    \/ \E i \in 1..Len(pendingSaves) : SaveUserDataRejected(i)
    \/ \E yk \in KeyBlobs : \E ai \in AiChoices : handleSaveAndClose(yk, "", "", ai)

SpecRemote == Init /\ [][NextRemote]_vars

----------------------------------------------------------------------------
(* The competitive analysis: a device that holds two sessions, the provider
   switched in the settings view, submit, response and reset, sign-in,
   reconciliation and sign-out *)

OtherAiChoices == {<<"openai", "gpt-4o">>}

TwoSessions == <<Session("c1", 1, "dev"), Session("c2", 1, "dev")>>

InitAnalysis ==
    \E row \in {None} \cup {Some(r) : r \in RemoteRows} :
        Loaded(None, Some(TwoSessions), None, row)

NextAnalysis ==
    \/ AuthNoSession
    \/ \E u \in Users : AuthSignedIn(u)
    \/ AuthSignedOut
    \/ \E i \in 1..Len(syncCalls) : \E outcome \in ReadOutcomes : GetUserDataDone(i, outcome)
    \/ \E ai \in AiChoices \cup OtherAiChoices : handleSaveAndClose("", "", "", ai)
    \/ handleStartCompetitiveAnalysis(Ids)
    \/ \E i \in 1..Len(analyses) : \E ok \in BOOLEAN : CompetitiveAnalysisDone(i, ok)
    \/ handleResetCompetitiveAnalysis

SpecAnalysis == InitAnalysis /\ [][NextAnalysis]_vars

----------------------------------------------------------------------------
(* The remote copy of a user who stays signed in: edits of the settings, the
   debounced flush, saveUserData calls that may overlap and all go through *)

NextFlush ==
    \/ AuthNoSession
    \/ \E u \in Users : AuthSignedIn(u)
    \/ \E i \in 1..Len(syncCalls) : \E outcome \in ReadOutcomes : GetUserDataDone(i, outcome)
    \/ \E yk \in KeyBlobs : \E ai \in AiChoices : handleSaveAndClose(yk, "", "", ai)
    \/ Tick
    \/ \E i \in 1..Len(timeouts) : Len(pendingSaves) < MaxSaves /\ TimeoutCallback(i)
    \/ \E i \in 1..Len(pendingSaves) : SaveUserDataDone(i, TRUE)

SpecFlush == Init /\ [][NextFlush]_vars

----------------------------------------------------------------------------
(* Export and import: a device that holds any library built during the visit,
   exported, emptied and filled again from the exported document *)

\* A session as handleFetchVideos builds it: nextPageToken is a string, or
\* undefined for a channel whose videos fit one page; a session read from a
\* file or from the remote record may lack the property
BuiltSessions ==
    {Session(i, t, "yt") : i \in Ids, t \in Stamps}
        \cup {Spread(Session(i, t, "yt"), [nextPageToken |-> tok]) :
                  i \in Ids, t \in Stamps, tok \in {Undefined, "page2"}}

InitRoundTrip ==
    \E lib \in UniqueLists(BuiltSessions) : Loaded(None, Some(lib), None, None)

NextRoundTrip ==
    \/ AuthNoSession
    \/ handleExportJson
    \/ \E id \in Ids : handleDeleteSession(id)
    \/ ImportDocument

SpecRoundTrip == InitRoundTrip /\ [][NextRoundTrip]_vars

----------------------------------------------------------------------------
(* Key rotation on its own: calls of executeWithKeyRotation with any key
   string, each request resolving or rejecting *)

InitRotation == Loaded(None, None, None, None)

NextRotation ==
    \/ \E keysString \in KeyStrings : executeWithKeyRotation(keysString)
    \/ ApiRequestResolved
    \/ \E error \in RequestErrors : ApiRequestRejected(error)

SpecRotation == InitRotation /\ [][NextRotation]_vars

----------------------------------------------------------------------------
(* parseISO8601Duration on its own, called with any string made of a prefix
   and pieces *)

NextDuration ==
    /\ probe = None
    /\ \E prefix \in Prefixes : \E pieces \in SeqsUpTo(Pieces, MaxPieces) :
           ParseDuration(prefix, pieces)

SpecDuration == InitRotation /\ [][NextDuration]_vars

----------------------------------------------------------------------------
(* The transcript modal: the provider's key set or removed in the settings
   view, transcripts requested, the modal closed, responses in any order *)

NextTranscript ==
    \/ \E gk \in KeyBlobs : \E ai \in AiChoices : handleSaveAndClose("", gk, "", ai)
    \/ \E video \in Videos : handleGetTranscript(video)
    \/ \E i \in 1..Len(transcripts) : \E outcome \in {"transcript"} \cup TranscriptErrors :
           TranscriptDone(i, outcome)
    \/ TranscriptModalClose

SpecTranscript == Init /\ [][NextTranscript]_vars

----------------------------------------------------------------------------
(* The update buttons: a device that holds two sessions, the YouTube key set
   in the settings view, updates started from the channel view and from the
   library whenever their button is enabled, responses in any order *)

NextUpdates ==
    \/ \E yk \in KeyBlobs : \E ai \in AiChoices : handleSaveAndClose(yk, "", "", ai)
    \/ UpdateChannelStarts
    \/ \E id \in Ids : UpdateSessionStarts(id)
    \/ \E i \in 1..Len(fetches) : \E id \in Ids : UpdateDone(i, id, MaxStamp)
    \/ \E i \in 1..Len(fetches) : FetchVideosFailed(i)

SpecUpdates == InitAnalysis /\ [][NextUpdates]_vars

----------------------------------------------------------------------------
(* Page loads during a competitive analysis: a device that holds two sessions,
   submit and response, the debounced flush, the page reloaded by the user or
   by a sign-out.  The user signs in while no request is in flight and submits
   while anonymous or once the mirror is populated, so that a request and its
   response belong to one mode. *)

NextReload ==
    \/ AuthNoSession
    \/ \E u \in Users : analyses = <<>> /\ AuthSignedIn(u)
    \/ AuthSignedOut
    \/ \E i \in 1..Len(syncCalls) : \E outcome \in ReadOutcomes : GetUserDataDone(i, outcome)
    \/ (user # None => isDataSynced) /\ handleStartCompetitiveAnalysis(Ids)
    \/ \E i \in 1..Len(analyses) : \E ok \in BOOLEAN : CompetitiveAnalysisDone(i, ok)
    \/ Tick
    \/ \E i \in 1..Len(timeouts) : DebounceFire(i)
    \/ \E i \in 1..Len(pendingSaves) : SaveUserDataDone(i, TRUE)
    \/ PageReload

SpecReload == InitAnalysis /\ [][NextReload]_vars

----------------------------------------------------------------------------
(* The channel queue: texts submitted, entries removed and analysed, the
   YouTube key set or removed in the settings view, responses and failures *)

MaxLines == 2          \* lines of a submitted text

UrlsTexts == UNION {[1..n -> QueueLines] : n \in 1..MaxLines}

NextQueue ==
    \/ AuthNoSession
    \/ \E yk \in KeyBlobs : \E ai \in AiChoices : handleSaveAndClose(yk, "", "", ai)
    \/ \E urlsText \in UrlsTexts : handleQueueSubmit(urlsText)
    \/ \E url \in {Trim(line) : line \in QueueLines} : handleRemoveFromQueue(url)
    \/ \E url \in {Trim(line) : line \in QueueLines} : handleAnalyzeFromQueue(url)
    \/ \E i \in 1..Len(fetches) : \E id \in Ids : FetchVideosDone(i, id, MaxStamp)
    \/ \E i \in 1..Len(fetches) : FetchVideosFailed(i)

SpecQueue == Init /\ [][NextQueue]_vars

----------------------------------------------------------------------------
(* The debounced remote flush *)

MirrorPayload == SavePayload(syncedAppConfig, syncedSavedSessions, syncedAnalysisState)

\* C1, as stated: the changes of a burst cause exactly one saveUserData call,
\* issued 2 seconds after the last change, with the mirror after that change
\* as its payload.
C1_FlushTwoSecondsAfterLastChange ==
    [][lastOp' = "flush" =>
          /\ user # None /\ isDataSynced
          /\ pendingSaves' = Append(pendingSaves, MirrorPayload)
          /\ timeouts' = <<>>
          /\ sinceChange = DebounceDelay]_vars

\* C1, amended: while a user is signed in and the data is reconciled, the
\* changes of a burst cause exactly one saveUserData call, whose payload is the
\* mirror after the last change.  It is issued 2 seconds after the last change
\* when the auth client delivered no new user object since that change, and 2
\* seconds after the last such delivery otherwise, never earlier than 2 seconds
\* after the last change.
C1_DebouncedFlush ==
    [][lastOp' = "flush" =>
          /\ user # None /\ isDataSynced
          /\ pendingSaves' = Append(pendingSaves, MirrorPayload)
          /\ timeouts' = <<>>
          /\ sinceChange >= DebounceDelay
          /\ (~refreshed => sinceChange = DebounceDelay)]_vars

\* Two changes less than 2 seconds apart went out as one call, 2 seconds after
\* the second one
C1_BurstFlushed ==
    /\ lastOp = "flush"
    /\ coalesced = 2
    /\ ~refreshed
    /\ sinceChange = DebounceDelay
    /\ Len(pendingSaves) = 1
    /\ pendingSaves[1] = MirrorPayload

----------------------------------------------------------------------------
(* On-device storage during and after an authenticated session *)

\* C2, as stated: between sign-in and sign-out no step changes any of the
\* three on-device entries.
C2_DeviceUntouchedWhileSignedIn ==
    [][user # None /\ user' # None => UNCHANGED <<lsConfig, lsSessions, lsAnalysis>>]_vars

\* A fetch begun before the session arrived has saved its channel on the device
\* of a signed-in user
C2_StaleSetterWrote ==
    /\ user # None
    /\ lsAtSignIn # None
    /\ lsSessions # lsAtSignIn[1][2]

\* C3, as stated: sign-out clears the mirror and the reconciled flag, and what
\* is read afterwards is the on-device data as it stood right before sign-in.
C3_SignOutRestoresDevice ==
    [][lastOp' = "signOut" =>
          /\ syncedAppConfig' = None
          /\ syncedSavedSessions' = None
          /\ syncedAnalysisState' = None
          /\ ~isDataSynced'
          /\ appConfig' = useLocalStorage(lsAtSignIn[1][1], initialConfig)
          /\ savedSessions' = useLocalStorage(lsAtSignIn[1][2], <<>>)
          /\ analysisState' = useLocalStorage(lsAtSignIn[1][3], initialAnalysisState)]_vars

\* A sign-out after a session in which the mirror held data of the cloud
C3_SignedOut ==
    /\ lastOp = "signOut"
    /\ user = None
    /\ remote # None
    /\ savedSessions # OrElse(remote[1].library_sessions, <<>>)

\* C4, as stated: when the reconciliation of a sign-in finds no remote record
\* the mirror becomes the on-device config, library and analysis as they are
\* at that moment, that data is what the flush then scheduled will send, and a
\* flush that goes through makes its payload the remote record.
C4_SeedsFromDevice ==
    [][/\ lastOp' = "seed" /\ ~isDataSynced =>
              /\ syncedAppConfig' = Some(localAppConfig)
              /\ syncedSavedSessions' = Some(localSavedSessions)
              /\ syncedAnalysisState' = Some(localAnalysisState)
              /\ timeouts' # <<>>
              /\ timeouts'[Len(timeouts')].payload =
                     SavePayload(Some(localAppConfig), Some(localSavedSessions),
                                 Some(localAnalysisState))
       /\ lastOp' = "saved" => \E i \in 1..Len(pendingSaves) : remote' = Some(pendingSaves[i])]_vars

\* The mirror was seeded with a library that is not the one on the device
C4_SeededStale ==
    /\ lastOp = "seed"
    /\ syncCalls # <<>>
    /\ syncedSavedSessions # Some(localSavedSessions)

----------------------------------------------------------------------------
(* Read routing *)

\* C6: the active config, sessions and analysis are the on-device values with
\* no user, the mirror's where the mirror is populated, and the built-in
\* defaults where a user is set and the mirror is not populated; once the data
\* is reconciled all of the mirror is populated.
C6_ReadRouting ==
    /\ user = None =>
          /\ appConfig = IF lsConfig = None THEN initialConfig ELSE lsConfig[1]
          /\ savedSessions = IF lsSessions = None THEN <<>> ELSE lsSessions[1]
          /\ analysisState = IF lsAnalysis = None THEN initialAnalysisState ELSE lsAnalysis[1]
    /\ user # None =>
          /\ appConfig = IF syncedAppConfig = None THEN initialConfig ELSE syncedAppConfig[1]
          /\ savedSessions = IF syncedSavedSessions = None THEN <<>> ELSE syncedSavedSessions[1]
          /\ analysisState = IF syncedAnalysisState = None THEN initialAnalysisState
                              ELSE syncedAnalysisState[1]
    /\ user # None /\ isDataSynced =>
          /\ syncedAppConfig # None
          /\ syncedSavedSessions # None
          /\ syncedAnalysisState # None

\* A user is set, the mirror is not populated yet, and the device holds a key
\* and a library that the views must not show
C6_DefaultsBeforeReconciled ==
    /\ user # None
    /\ ~isDataSynced
    /\ syncedAppConfig = None
    /\ syncedSavedSessions = None
    /\ localAppConfig # initialConfig
    /\ localSavedSessions # <<>>
    /\ appConfig = initialConfig
    /\ savedSessions = <<>>

----------------------------------------------------------------------------
(* Reconciliation with a remote record *)

\* C5: when the reconciliation finds a remote record, the active sessions are
\* the record's library_sessions (none if absent), the analysis its
\* analysis_state (idle if absent), the config the defaults overlaid with its
\* app_settings, and no session of the device is among the active ones.
C5_RemoteWins ==
    lastOp = "adopt" =>
        LET r == remote[1]
            settings == IF r.app_settings = None THEN <<>> ELSE r.app_settings[1]
        IN  /\ savedSessions = IF r.library_sessions = None THEN <<>> ELSE r.library_sessions[1]
            /\ analysisState = IF r.analysis_state = None THEN initialAnalysisState
                                ELSE r.analysis_state[1]
            /\ DOMAIN appConfig = DOMAIN initialConfig \cup DOMAIN settings
            /\ \A f \in DOMAIN appConfig :
                   appConfig[f] = IF f \in DOMAIN settings THEN settings[f] ELSE initialConfig[f]
            /\ \A k \in 1..Len(localSavedSessions) : \A j \in 1..Len(savedSessions) :
                   savedSessions[j] # localSavedSessions[k]

\* A record was adopted on a device that holds a newer session of a channel the
\* record has, a session of a channel the record lacks, and a config of its own
C5_AdoptedOverNewerDevice ==
    /\ lastOp = "adopt"
    /\ remote[1].library_sessions # None
    /\ \E k \in 1..Len(localSavedSessions) : \E j \in 1..Len(savedSessions) :
           /\ localSavedSessions[k].id = savedSessions[j].id
           /\ localSavedSessions[k].savedAt > savedSessions[j].savedAt
    /\ \E k \in 1..Len(localSavedSessions) : localSavedSessions[k].id \notin IdsOf(savedSessions)
    /\ localAppConfig = DeviceConfig

----------------------------------------------------------------------------
(* The session collection *)

\* C7: from an empty library, after any sequence of fetches, updates, deletes,
\* imports, reconciliations and sign-outs, no two sessions of the active
\* collection, of the on-device library or of the mirror share an id.
C7_UniqueSessionIds ==
    /\ UniqueIds(savedSessions)
    /\ UniqueIds(localSavedSessions)
    /\ UniqueIds(OrElse(syncedSavedSessions, <<>>))

\* A signed-in library of two channels: the cloud's session of the first was
\* replaced in place by a fetch or update, the second came from a file
C7_ReplacedInPlace ==
    /\ user # None
    /\ isDataSynced
    /\ remote # None
    /\ remote[1].library_sessions = Some(<<Session("c1", 1, "cloud")>>)
    /\ savedSessions = <<Session("c1", MaxStamp, "yt"), Session("c2", 1, "file")>>
    /\ localSavedSessions = <<>>

----------------------------------------------------------------------------
(* The merges *)

EntryOf(list, i) == list[FindIndex(list, i)]

LastEntryOf(list, i) ==
    list[CHOOSE k \in 1..Len(list) :
             /\ list[k].id = i
             /\ \A j \in (k + 1)..Len(list) : list[j].id # i]

Later(a, b) == IF a > b THEN a ELSE b

\* C8: an import of list B into collection A leaves exactly one entry per id
\* of A or B; an id of B has B's entry whatever the savedAt values, an id of A
\* alone has A's entry unchanged.
C8_ImportMerge ==
    probe # None =>
        LET A == probe[1].existing
            B == probe[1].incoming
            R == probe[1].result
        IN  /\ UniqueIds(R)
            /\ IdsOf(R) = IdsOf(A) \cup IdsOf(B)
            /\ \A k \in 1..Len(R) :
                   R[k] = IF R[k].id \in IdsOf(B) THEN LastEntryOf(B, R[k].id)
                          ELSE EntryOf(A, R[k].id)

\* An import whose file holds an older session of a channel of the library,
\* while another channel of the library is not in the file
C8_OlderFileEntryWon ==
    /\ probe # None
    /\ \E i \in IdsOf(probe[1].existing) \cap IdsOf(probe[1].incoming) :
           /\ EntryOf(probe[1].existing, i).savedAt > LastEntryOf(probe[1].incoming, i).savedAt
           /\ EntryOf(probe[1].result, i) = LastEntryOf(probe[1].incoming, i)
    /\ \E i \in IdsOf(probe[1].existing) : i \notin IdsOf(probe[1].incoming)

\* C9: the merging version's syncData, merging on-device sessions L with cloud
\* sessions C, leaves exactly one entry per id of L or C; for an id of both it
\* keeps the entry with the later savedAt (L's when they are equal), for an id
\* of one it keeps that one's entry.
C9_CloudMerge ==
    probe # None =>
        LET L == probe[1].existing
            C == probe[1].incoming
            R == probe[1].result
        IN  /\ probe[1].site = "sync"
            /\ UniqueIds(R)
            /\ IdsOf(R) = IdsOf(L) \cup IdsOf(C)
            /\ \A k \in 1..Len(R) :
                   LET i == R[k].id
                   IN  IF i \in IdsOf(L) /\ i \in IdsOf(C)
                       THEN /\ R[k].savedAt = Later(EntryOf(L, i).savedAt, EntryOf(C, i).savedAt)
                            /\ R[k] = IF EntryOf(C, i).savedAt > EntryOf(L, i).savedAt
                                      THEN EntryOf(C, i) ELSE EntryOf(L, i)
                       ELSE IF i \in IdsOf(L) THEN R[k] = EntryOf(L, i)
                       ELSE R[k] = EntryOf(C, i)

\* A merge in which the cloud's session is the later one for one channel and
\* the device's for the other
C9_BothDirections ==
    /\ probe # None
    /\ probe[1].site = "sync"
    /\ \E i \in IdsOf(probe[1].existing) \cap IdsOf(probe[1].incoming) :
           /\ EntryOf(probe[1].incoming, i).savedAt > EntryOf(probe[1].existing, i).savedAt
           /\ EntryOf(probe[1].result, i).data = "cloud"
    /\ \E i \in IdsOf(probe[1].existing) \cap IdsOf(probe[1].incoming) :
           /\ EntryOf(probe[1].incoming, i).savedAt < EntryOf(probe[1].existing, i).savedAt
           /\ EntryOf(probe[1].result, i).data = "dev"

\* C10, as stated: every merge, the import of a file and the reconciliation
\* at sign-in alike, keeps for an id of both collections the entry with the
\* later savedAt.
C10_LaterSavedAtKept ==
    /\ probe # None /\ UniqueIds(probe[1].incoming) =>
          \A i \in IdsOf(probe[1].existing) \cap IdsOf(probe[1].incoming) :
              EntryOf(probe[1].result, i).savedAt =
                  Later(EntryOf(probe[1].existing, i).savedAt,
                        EntryOf(probe[1].incoming, i).savedAt)
    /\ lastOp = "adopt" =>
          \A i \in IdsOf(localSavedSessions) \cap IdsOf(AdoptSessions(remote[1])) :
              /\ i \in IdsOf(savedSessions)
              /\ EntryOf(savedSessions, i).savedAt =
                     Later(EntryOf(localSavedSessions, i).savedAt,
                           EntryOf(AdoptSessions(remote[1]), i).savedAt)

\* C10, amended: the import of a file and the reconciliation at sign-in keep,
\* for an id of both collections, the entry of the incoming collection (the
\* file's, the remote record's), whatever the two savedAt values are.
C10_IncomingEntryKept ==
    /\ probe # None =>
          \A i \in IdsOf(probe[1].existing) \cap IdsOf(probe[1].incoming) :
              EntryOf(probe[1].result, i) = LastEntryOf(probe[1].incoming, i)
    /\ lastOp = "adopt" /\ remote[1].library_sessions # None =>
          \A i \in IdsOf(localSavedSessions) \cap IdsOf(remote[1].library_sessions[1]) :
              /\ i \in IdsOf(savedSessions)
              /\ EntryOf(savedSessions, i) = EntryOf(remote[1].library_sessions[1], i)

\* After an import in which the library's session was the later one, a
\* reconciliation in which the device's session is the later one
C10_BothMergesSeen ==
    /\ probe # None
    /\ \E i \in IdsOf(probe[1].existing) \cap IdsOf(probe[1].incoming) :
           EntryOf(probe[1].existing, i).savedAt > LastEntryOf(probe[1].incoming, i).savedAt
    /\ lastOp = "adopt"
    /\ remote[1].library_sessions # None
    /\ \E i \in IdsOf(localSavedSessions) \cap IdsOf(remote[1].library_sessions[1]) :
           EntryOf(localSavedSessions, i).savedAt >
               EntryOf(remote[1].library_sessions[1], i).savedAt

----------------------------------------------------------------------------
(* The provider key blobs of the effective config *)

Providers == {"youtube", "gemini", "openai"}

\* C11: in every state the effective config holds a key blob, a string, for
\* each of the three providers; one the remote settings lack is the empty
\* string.  This covers the reconciliation with remote settings that lack a
\* provider, the seeding from the on-device config and the save from the
\* settings view.
C11_KeyBlobsPresent ==
    /\ Providers \subseteq DOMAIN appConfig
    /\ \A p \in Providers : /\ DOMAIN appConfig[p] = {"key"}
                            /\ appConfig[p].key \in STRING
    /\ lastOp = "adopt" /\ remote[1].app_settings # None =>
          \A p \in Providers :
              appConfig[p].key = IF p \in DOMAIN remote[1].app_settings[1]
                                 THEN remote[1].app_settings[1][p].key
                                 ELSE ""

\* Reconciled with remote settings that hold the YouTube keys alone
C11_AdoptedPartialSettings ==
    /\ lastOp = "adopt"
    /\ user # None /\ isDataSynced
    /\ remote # None
    /\ remote[1].app_settings = Some(OlderSettings)
    /\ appConfig.youtube.key = "yk"
    /\ appConfig.gemini.key = ""
    /\ appConfig.openai.key = ""

----------------------------------------------------------------------------
(* Who writes the stores *)

\* A unified setter's write of an on-device entry stores a value under the key
StoredBySetter(entry, entryAfter) == entryAfter # entry => entryAfter # None

\* The remote record changes when a saveUserData call the debounced flush
\* issued goes through, and becomes that call's payload
WrittenByFlush ==
    remote' # remote =>
        /\ lastOp' = "saved"
        /\ \E i \in 1..Len(pendingSaves) : remote' = Some(pendingSaves[i])

----------------------------------------------------------------------------
(* Key rotation *)

\* C13: every call attempts the keys in list order from the first key, whatever
\* the call before it did; a call whose request failed for keys 1..i-1 and
\* succeeded for key i returns key i's result, surfaces no error, and has
\* attempted no key after i.
C13_ReturnsFirstSuccess ==
    probe # None =>
        LET r == probe[1]
            i == Len(r.attempted)
        IN  /\ r.attempted = SubSeq(r.keys, 1, i)
            /\ r.status = "pending" => Len(r.errors) = i - 1
            /\ r.status = "returned" =>
                  /\ i >= 1
                  /\ Len(r.errors) = i - 1
                  /\ r.result = Some(ResultOf(r.keys[i]))
                  /\ r.error = None

\* Keys "k" and "j": the first failed, the second succeeded, in a call made
\* after a call in which every key had failed
C13_SecondKeySucceeded ==
    /\ probe # None
    /\ probe[1].earlier = "thrown"
    /\ probe[1].keysString = <<"k", ",", "j">>
    /\ probe[1].status = "returned"
    /\ probe[1].attempted = << <<"k">>, <<"j">> >>
    /\ probe[1].result = Some(ResultOf(<<"j">>))

\* C14: a call whose request failed for every key has attempted each key once,
\* in order, and throws an error that carries the error of the last attempt.
C14_ExhaustionSurfacesLastError ==
    probe # None /\ probe[1].status = "thrown" /\ probe[1].keys # <<>> =>
        LET r == probe[1]
        IN  /\ r.attempted = r.keys
            /\ Len(r.errors) = Len(r.keys)
            /\ r.error = Some(AllKeysFailedError(r.errors[Len(r.errors)]))
            /\ r.result = None

\* Two keys failed with different errors
C14_TwoKeysFailedDifferently ==
    /\ probe # None
    /\ probe[1].status = "thrown"
    /\ probe[1].keys = << <<"k">>, <<"j">> >>
    /\ probe[1].errors = <<[message |-> "quota"], [message |-> "invalid"]>>
    /\ probe[1].error = Some(AllKeysFailedError([message |-> "invalid"]))

\* C15: a key string made of separators and blanks only yields no key; the call
\* throws without invoking the request, and its error differs from every
\* error thrown after all keys failed.  Any other key string has its request
\* invoked.
C15_NoKeysFailsAtOnce ==
    probe # None =>
        LET r == probe[1]
            blank == \A i \in 1..Len(r.keysString) :
                         r.keysString[i] \in Separators \cup Whitespace
        IN  /\ blank => /\ r.status = "thrown"
                        /\ r.attempted = <<>>
                        /\ r.errors = <<>>
                        /\ r.error = Some(NoKeysError)
            /\ ~blank => /\ r.attempted # <<>>
                         /\ \A k \in 1..Len(r.attempted) : r.attempted[k] # <<>>
                         /\ r.error # Some(NoKeysError)
            /\ \A e \in RequestErrors : NoKeysError # AllKeysFailedError(e)

\* A key string of a blank, a comma and a newline
C15_BlankKeyString ==
    /\ probe # None
    /\ probe[1].keysString = <<" ", ",", "\n">>
    /\ probe[1].status = "thrown"
    /\ probe[1].attempted = <<>>
    /\ probe[1].error = Some(NoKeysError)

----------------------------------------------------------------------------
(* Failures of the remote calls *)

\* C16, as stated: whatever fails in the identity lookup, the remote read or
\* the remote write, getUserData and saveUserData resolve, so that neither the
\* reconciliation nor the flush ends in an unhandled rejection.
C16_RemoteFailuresNeverPropagate == lastOp # "unhandledRejection"

\* The lookup of getUserData rejected after sign-in: the reconciliation has
\* ended without completing, and no call is left to complete it
C16_ReconciliationRejected ==
    /\ lastOp = "unhandledRejection"
    /\ user # None
    /\ ~isDataSynced
    /\ syncCalls = <<>>
    /\ remote # None
    /\ syncedSavedSessions = None

----------------------------------------------------------------------------
(* The lifecycle of the competitive analysis *)

Idle(a) == ~a.isLoading /\ ~a.isComplete
Loading(a) == a.isLoading /\ ~a.isComplete
Complete(a) ==
    /\ ~a.isLoading /\ a.isComplete
    /\ \/ a.error = NULL
       \/ a.error # NULL /\ a.result = ""

\* C17, as stated: the analysis state changes only from idle to loading on a
\* submit, from loading to complete on the response, and from complete to idle
\* on a reset; it is never loading and complete at once.
C17_Lifecycle ==
    [][/\ analysisState' # analysisState =>
             \/ lastOp' = "submit" /\ Idle(analysisState) /\ Loading(analysisState')
             \/ lastOp' = "response" /\ Loading(analysisState) /\ Complete(analysisState')
             \/ lastOp' = "reset" /\ Complete(analysisState) /\ Idle(analysisState')
       /\ ~(analysisState'.isLoading /\ analysisState'.isComplete)]_vars

\* C17, amended: a submit finds the analysis idle and, with a Gemini model
\* selected, makes it loading and starts the request; with another provider it
\* makes it complete with an error and an empty result at once, without
\* loading.  A response makes the state it writes complete: a result without
\* error, or an error with an empty result.  A reset finds the analysis
\* complete and makes it the initial idle state.  No state, effective, on the
\* device or in the mirror, is loading and complete at once.
C17_HandlerSteps ==
    [][/\ lastOp' = "submit" =>
             /\ Idle(analysisState)
             /\ IF appConfig.aiProvider = "gemini"
                THEN /\ analysisState' = AnalysisLoading
                     /\ Len(analyses') = Len(analyses) + 1
                ELSE /\ Complete(analysisState')
                     /\ analysisState'.error # NULL
                     /\ analyses' = analyses
       /\ lastOp' = "response" =>
             \E i \in 1..Len(analyses) :
                 /\ analyses' = RemoveAt(analyses, i)
                 /\ Complete(IF analyses[i].li
                             THEN OrElse(syncedAnalysisState', initialAnalysisState)
                             ELSE localAnalysisState')
       /\ lastOp' = "reset" =>
             /\ Complete(analysisState)
             /\ analysisState' = initialAnalysisState
       /\ ~(analysisState'.isLoading /\ analysisState'.isComplete)
       /\ ~(localAnalysisState'.isLoading /\ localAnalysisState'.isComplete)
       /\ syncedAnalysisState' # None =>
             ~(syncedAnalysisState'[1].isLoading /\ syncedAnalysisState'[1].isComplete)]_vars

\* A signed-in user with OpenAI selected submitted: complete with the error,
\* no request in flight
C17_SubmitWithoutGemini ==
    /\ lastOp = "submit"
    /\ user # None /\ isDataSynced
    /\ appConfig.aiProvider = "openai"
    /\ analysisState = AnalysisError("needsGemini")
    /\ analyses = <<>>

----------------------------------------------------------------------------
(* Eventual consistency of the remote copy *)

\* Nothing is left that could still write the remote record: no timeout is
\* pending and no remote call is in flight
Settled == timeouts = <<>> /\ pendingSaves = <<>> /\ syncCalls = <<>> /\ fetches = <<>>

\* C18, as stated, for a user who stays signed in and whose remote writes all
\* succeed: the edits are followed by a write with the latest mirror state, so
\* that once the last write went through and nothing is pending, the remote
\* record equals the mirror.  (In such a state nothing will change the record
\* any more: a record that differs there never becomes equal.)
C18_RemoteCatchesUp ==
    user # None /\ isDataSynced /\ Settled /\ lastOp = "saved" =>
        remote = Some(MirrorPayload)

\* Two saveUserData calls overlapped and the one with the older payload went
\* through last: the record holds the YouTube keys the user has removed
C18_OlderWriteLandedLast ==
    /\ user # None /\ isDataSynced /\ Settled
    /\ lastOp = "saved"
    /\ syncedAppConfig[1].youtube.key = ""
    /\ remote[1].app_settings[1].youtube.key = "yk"

----------------------------------------------------------------------------
(* The JSON round trip *)

\* What reading property k of session s gives
Read(s, k) == IF k \in DOMAIN s THEN s[k] ELSE Undefined

SameContent(a, b) ==
    \A k \in {"id", "savedAt", "data", "nextPageToken"} : Read(a, k) = Read(b, k)

\* C19: a non-empty library with unique ids, exported by handleExportJson,
\* parsed and imported into the emptied library, gives a library of the same
\* ids in the same order, each session with the content it had.
C19_RoundTrip ==
    probe # None /\ probe[1].site = "reimported" =>
        /\ Len(probe[1].result) = Len(probe[1].original)
        /\ \A k \in 1..Len(probe[1].result) :
               SameContent(probe[1].result[k], probe[1].original[k])

\* Two sessions went through the round trip, one with a page token and one
\* whose page token was undefined
C19_TwoSessionsReimported ==
    /\ probe # None
    /\ probe[1].site = "reimported"
    /\ Len(probe[1].original) = 2
    /\ Read(probe[1].original[1], "nextPageToken") = "page2"
    /\ "nextPageToken" \in DOMAIN probe[1].original[2]
    /\ probe[1].original[2].nextPageToken = Undefined
    /\ Len(probe[1].result) = 2
    /\ "nextPageToken" \notin DOMAIN probe[1].result[2]

----------------------------------------------------------------------------
(* Durations *)

\* The number a numeral stands for
ValueOf(text) ==
    CASE text = <<"0">> -> 0
      [] text = <<"5">> -> 5
      [] text = <<"0", "7">> -> 7
      [] text = <<"1", "2">> -> 12
      [] text = <<"1", "0", "0">> -> 100

\* A number in at least two digits
TwoDigits(n) ==
    CASE n = 0 -> <<"0", "0">>
      [] n = 5 -> <<"0", "5">>
      [] n = 7 -> <<"0", "7">>
      [] n = 12 -> <<"1", "2">>
      [] n = 100 -> <<"1", "0", "0">>

\* The value of the component with unit u among the pieces, 0 when it is missing
Amount(pieces, u) ==
    IF \E k \in 1..Len(pieces) : pieces[k].unit = u
    THEN ValueOf(pieces[CHOOSE k \in 1..Len(pieces) : pieces[k].unit = u].text)
    ELSE 0

\* "PT", then the hours, the minutes and the seconds, each at most once, in
\* this order, each a whole number
WellFormed(prefix, pieces) ==
    /\ prefix = <<"P", "T">>
    /\ \A k \in 1..Len(pieces) : pieces[k].text \in Numerals
    /\ \A j, k \in 1..Len(pieces) :
           j < k => \/ pieces[j].unit = "H" /\ pieces[k].unit \in {"M", "S"}
                    \/ pieces[j].unit = "M" /\ pieces[k].unit = "S"

\* No component follows a "PT": the string has no "PT", or what follows it is
\* not a whole number with its unit
NoComponent(prefix, pieces) ==
    \/ prefix \in {<<>>, <<"P">>, <<"T">>, <<"P", "1", "D", "T">>}
    \/ pieces = <<>>
    \/ Head(pieces).text \notin Numerals

\* C20: a duration with hours H > 0 gives "HH:MM:SS" and one without hours
\* "MM:SS", each number in at least two digits and a missing component counted
\* as 0; a string in which no component matches, among them every string
\* without "PT", gives "00:00".
C20_DurationDisplay ==
    probe # None =>
        LET r == probe[1]
            H == Amount(r.pieces, "H")
            M == Amount(r.pieces, "M")
            S == Amount(r.pieces, "S")
        IN  /\ WellFormed(r.prefix, r.pieces) =>
                  r.result = IF H > 0
                             THEN TwoDigits(H) \o <<":">> \o TwoDigits(M)
                                      \o <<":">> \o TwoDigits(S)
                             ELSE TwoDigits(M) \o <<":">> \o TwoDigits(S)
            /\ NoComponent(r.prefix, r.pieces) => r.result = <<"0", "0", ":", "0", "0">>

\* "PT12H5M7S" parsed
C20_HoursMinutesSeconds ==
    /\ probe # None
    /\ probe[1].duration = <<"P", "T", "1", "2", "H", "5", "M", "0", "7", "S">>
    /\ probe[1].result = <<"1", "2", ":", "0", "5", ":", "0", "7">>

----------------------------------------------------------------------------
(* The guard on transcript results *)

\* C21: a transcript response or error changes the modal only when it answers
\* the request the modal is waiting on; the answer to a request made before
\* the modal was closed, or before another transcript was requested, leaves
\* the modal as it is.
C21_OnlyTheAwaitedRequestApplies ==
    [][lastOp' = "staleTranscript" => transcriptModalState' = transcriptModalState]_vars

\* The modal was closed and opened again for the same video; the answer to the
\* first request has ended its loading while the second is still in flight
C21_EarlierAnswerShown ==
    /\ lastOp = "staleTranscript"
    /\ transcriptModalState.isOpen
    /\ ~transcriptModalState.isLoading
    /\ \E k \in 1..Len(transcripts) :
           /\ transcripts[k].current
           /\ Some(transcripts[k].video) = transcriptModalState.currentVideoId

----------------------------------------------------------------------------
(* A failed flush *)

\* This step armed the debounce timeout
Armed == timeouts' # timeouts /\ \E k \in 1..Len(timeouts') : timeouts'[k].left = DebounceDelay

\* C22, as stated: after a remote write failed, with no timeout pending, no
\* remote write is scheduled until the next edit to the mirror.
C22_NoWriteUntilNextEdit ==
    [][lastOp = "saveFailed" /\ timeouts = <<>> /\ Armed => sinceChange' = 0]_vars

\* C22, amended: the end of a failed saveUserData call arms no timeout, issues
\* no call and changes neither the mirror nor the remote record; the timeout
\* is armed only by a step that writes the mirror (an edit, the reconciliation)
\* or by the delivery of a new user object.
C22_FailureArmsNothing ==
    [][/\ lastOp' \in {"saveFailed", "unhandledRejection"} =>
             /\ UNCHANGED <<timeouts, remote, syncedAppConfig, syncedSavedSessions,
                            syncedAnalysisState>>
             /\ Len(pendingSaves') <= Len(pendingSaves)
       /\ Armed => sinceChange' = 0 \/ lastOp' = "tokenRefresh"]_vars

\* The write of the mirror's latest state has failed more than 2 seconds after
\* the edit: nothing is pending, nothing is in flight, the record is behind
C22_FailureDropped ==
    /\ lastOp = "saveFailed"
    /\ user # None /\ isDataSynced
    /\ timeouts = <<>>
    /\ pendingSaves = <<>>
    /\ sinceChange >= DebounceDelay
    /\ remote # Some(MirrorPayload)

----------------------------------------------------------------------------
(* Updates in flight *)

\* The channel updates and session updates awaiting their responses
UpdatesInFlight == {k \in 1..Len(fetches) : fetches[k].kind \in {"update", "updateSession"}}

\* C23: at most one update, of the channel on screen or of a session of the
\* library, is in flight at a time; while one is running the buttons that
\* start another are disabled; isUpdating and updatingSessionId are back at
\* their idle values once the update they mark has ended, in success and in
\* failure.
C23_OneUpdateAtATime ==
    /\ Cardinality(UpdatesInFlight) <= 1
    /\ UpdatesInFlight # {} => ~UpdateChannelEnabled /\ ~UpdateSessionEnabled
    /\ isUpdating <=> \E k \in 1..Len(fetches) : fetches[k].kind = "update"
    /\ updatingSessionId # None <=> \E k \in 1..Len(fetches) : fetches[k].kind = "updateSession"

\* An update of the channel on screen and an update of a session of the
\* library are in flight together
C23_BothUpdatesRunning ==
    /\ Cardinality(UpdatesInFlight) = 2
    /\ isUpdating
    /\ updatingSessionId # None

----------------------------------------------------------------------------
(* The analysis after a page load *)

\* C24: after a page load the effective analysis state is not loading unless
\* a request is in flight: neither when the page has mounted, nor, for a
\* signed-in user, when the mirror has been populated from the remote record.
C24_NotLoadingAfterReload ==
    /\ lastOp \in {"reload", "signOut", "cleared"} => ~analysisState.isLoading
    /\ lastOp = "adopt" /\ analyses = <<>> => ~analysisState.isLoading

\* The record holds the loading state the debounce flushed before the page
\* was reloaded; the mirror has adopted it and no request is in flight
C24_AdoptedLoading ==
    /\ lastOp = "adopt"
    /\ analyses = <<>>
    /\ remote[1].analysis_state = Some(AnalysisLoading)
    /\ analysisState.isLoading
    /\ ~analysisState.isComplete

----------------------------------------------------------------------------
(* One reconciliation per sign-in *)

\* C25: the mirror is populated, from the remote record or from the on-device
\* data, at most once per sign-in: a remote read that completes once the data
\* is reconciled populates nothing, so it overwrites no edit made since.
C25_PopulatedOnce ==
    [][lastOp' \in {"adopt", "seed"} => ~isDataSynced]_vars

\* A second read of the record has completed after the mirror was populated
\* from the record and its settings were edited: the mirror is back at the
\* record's settings while the write of the edited settings is in flight
C25_EditOverwritten ==
    /\ lastOp = "adopt"
    /\ pendingSaves # <<>>
    /\ remote[1].library_sessions # None
    /\ pendingSaves[1].library_sessions = Some(AdoptSessions(remote[1]))
    /\ pendingSaves[1].app_settings # Some(AdoptConfig(remote[1]))
    /\ syncedAppConfig = Some(AdoptConfig(remote[1]))

----------------------------------------------------------------------------
(* A remote read that fails *)

\* C26: a failed remote read is not taken for a missing record: the mirror is
\* seeded with the on-device data, which the following flush writes over the
\* account's record, only when the account has no record.
C26_SeedsOnlyWithoutRecord ==
    [][lastOp' = "seed" => remote = None]_vars

\* The read has failed for an account whose record holds a library: the mirror
\* holds the device's empty library and the timeout that will write it over
\* the record is armed
C26_SeededOverRecord ==
    /\ lastOp = "seed"
    /\ remote # None
    /\ OrElse(remote[1].library_sessions, <<>>) # <<>>
    /\ syncedSavedSessions = Some(<<>>)
    /\ \E k \in 1..Len(timeouts) : timeouts[k].payload.library_sessions = Some(<<>>)

----------------------------------------------------------------------------
(* What a remote write carries *)

\* The three columns of a payload are set
Whole(payload) ==
    /\ payload.app_settings # None
    /\ payload.library_sessions # None
    /\ payload.analysis_state # None

\* C27: saveUserData is called only while a user is signed in and the data is
\* reconciled, with the three columns set, all of them from the mirror as it
\* is at that moment; a timeout is pending only in such a state, so no write
\* is issued while anonymous or before the mirror is populated.
C27_WritesCarryTheMirror ==
    [][/\ lastOp' = "flush" =>
             /\ user # None /\ isDataSynced
             /\ Len(pendingSaves') = Len(pendingSaves) + 1
             /\ pendingSaves'[Len(pendingSaves')] = MirrorPayload
             /\ Whole(pendingSaves'[Len(pendingSaves')])
       /\ Len(pendingSaves') > Len(pendingSaves) => lastOp' = "flush"
       /\ timeouts' # <<>> =>
             /\ user' # None /\ isDataSynced'
             /\ \A k \in 1..Len(timeouts') : Whole(timeouts'[k].payload)]_vars

\* The first write for an account without a record: the library saved on the
\* device before the sign-in goes out with the settings and the analysis state
C27_SeededLibraryFlushed ==
    /\ lastOp = "flush"
    /\ remote = None
    /\ user # None /\ isDataSynced
    /\ Len(pendingSaves) = 1
    /\ pendingSaves[1] = MirrorPayload
    /\ Whole(pendingSaves[1])
    /\ pendingSaves[1].library_sessions # Some(<<>>)

----------------------------------------------------------------------------
(* The queue's marker of the URL under analysis *)

\* A request of handleFetchVideos for the URL is awaiting its response
Analysing(url) ==
    \E i \in 1..Len(fetches) : fetches[i].kind = "fetch" /\ fetches[i].url = url

\* C28, as stated: a URL is marked as under analysis only while its analysis
\* is running, so that every call of handleAnalyzeFromQueue that marked a URL
\* is followed by the finally block that sets the marker back to null; with at
\* most one marked URL no second queue analysis runs beside it.
C28_MarkedOnlyWhileAnalysing ==
    /\ currentlyAnalyzingUrl # None => Analysing(currentlyAnalyzingUrl[1])
    /\ Len(SelectSeq(fetches, LAMBDA c : c.kind = "fetch")) <= 1

\* A URL is marked, no request is in flight and no handler is running: the
\* key was missing when the button was pressed and was entered afterwards
C28_MarkedWithoutAnalysis ==
    /\ currentlyAnalyzingUrl # None
    /\ Includes(channelQueue, currentlyAnalyzingUrl[1])
    /\ fetches = <<>>
    /\ appConfig.youtube.key # ""

----------------------------------------------------------------------------
(* The entries of the channel queue *)

\* C30, as stated: the entries of the channel queue are pairwise distinct, and
\* a step that ends an analysis removes URLs from the queue only if the
\* analysis succeeded.
C30_QueueEntriesDistinct ==
    \A j, k \in 1..Len(channelQueue) : j # k => channelQueue[j] # channelQueue[k]

\* One submitted text put the same URL into the empty queue twice
C30_UrlQueuedTwice ==
    /\ Len(channelQueue) = 2
    /\ channelQueue[1] = channelQueue[2]
    /\ currentlyAnalyzingUrl = None
    /\ fetches = <<>>
    /\ lsSessions = None

----------------------------------------------------------------------------
(* What an update leaves of the library *)

\* The ids of a collection, in its order
IdList(list) == [k \in 1..Len(list) |-> list[k].id]

\* C29: the step in which handleUpdateChannel or handleUpdateSession saves its
\* refreshed session leaves the ids of the collection, on the device and in
\* the mirror, as they were and in their order; at most one entry changes,
\* which is the one with the id of the refreshed session.
C29_UpdateAddsNoId ==
    [][lastOp' = "updated" =>
          /\ IdList(savedSessions') = IdList(savedSessions)
          /\ IdList(OrElse(lsSessions', <<>>)) = IdList(OrElse(lsSessions, <<>>))
          /\ IdList(OrElse(syncedSavedSessions', <<>>))
                 = IdList(OrElse(syncedSavedSessions, <<>>))
          /\ Cardinality({k \in 1..Len(savedSessions) :
                              savedSessions'[k] # savedSessions[k]}) <= 1]_vars

\* The response of an update arrived and no entry took it: the session was
\* deleted while the request was in flight, or the channel resolved to an id
\* the library does not hold
C29_RefreshedSessionDropped ==
    /\ lastOp = "updated"
    /\ fetches = <<>>
    /\ Len(savedSessions) = 1
    /\ savedSessions[1].data # "yt"

====
